---- MODULE Spec2Model ----
(***************************************************************************)
(* Decision and risk-state engine of the trading bot:                      *)
(*   - BaseStrategy.add_kline / IFRStrategy.get_max_klines (candle buffer) *)
(*   - TrailingStop (activate / update / deactivate, ATR)                  *)
(*   - PositionManager.calculate_position_size                             *)
(*   - BybitClient.close_position and the venue behind the client          *)
(*   - execution.trader._handle_new_kline (one decision cycle)             *)
(*   - run_optimization: objective, parameter file, and its reading by     *)
(*     run_trader                                                          *)
(*   - IFRStrategy.calculate_signal                                        *)
(*   - run_trader: callbacks, SIGINT and shutdown; startup of both modes   *)
(*   - optimization._backtest (the bar-by-bar simulation)                  *)
(*                                                                         *)
(* Numbers.  Candle fields and prices are integers.  The trailing stop     *)
(* divides a sum of true ranges by atr_period; to stay exact, every value  *)
(* held by the trailing stop (prices, stops, ATR) is expressed in units of *)
(* 1/AtrPeriod: Px(p) is the price p in those units and _calculate_atr is  *)
(* the sum of the true ranges (= mean * AtrPeriod).                        *)
(***************************************************************************)
EXTENDS Integers, Sequences, FiniteSets, TLC

VARIABLES
    klines,        \* BaseStrategy.klines: the strategy's candle buffer
    state,         \* TrailingStop.state: NoState (None) or a TrailingStopState
    current_side,  \* trader._current_side: "None", "Long" or "Short"
    venue,         \* the position the venue holds (what get_position reads)
    pending,       \* orders the venue accepted and has not yet executed
    cycles,        \* history: how many decision cycles have run
    op,            \* history: the last call made and what it did
    params_file,   \* Settings.OPTIMIZED_PARAMS_FILE: NoFile or the document
    stop_event,    \* trader._stop_event: whether the flag is set
    ws,            \* BybitClient.ws: "none", "connected" or "closed"
    pc,            \* where run_trader's main thread is
    callback,      \* the ws_callback the stream's thread is running: <<>>
                   \* or <<[kline, decided]>>
    backtest       \* _backtest's local variables: NoBacktest or a record

\* The variables of run_optimization and of run_trader outside the cycle.
run_vars == <<params_file, stop_event, ws, pc, callback, backtest>>

vars == <<klines, state, current_side, venue, pending, cycles, op,
          params_file, stop_event, ws, pc, callback, backtest>>

\* OPTIMIZED_PARAMS_FILE does not exist.
NoFile == <<>>

\* _backtest is not running.
NoBacktest == <<>>

\* Nothing written yet, the stop flag clear, no stream, run_trader not
\* started: the values run_vars keep in the specifications that study one
\* component alone.
RunIdle ==
    /\ params_file = NoFile
    /\ stop_event = FALSE
    /\ ws = "none"
    /\ pc = "idle"
    /\ callback = <<>>
    /\ backtest = NoBacktest

-----------------------------------------------------------------------------
(* Parameters of the instances under study                                 *)

\* TrailingStop(atr_multiplier=2.0, atr_period=AtrPeriod)
AtrMultiplier == 2
AtrPeriod == 2

\* IFRStrategy.cfg: the IFRParams fields get_max_klines reads
cfg == [rsi_period |-> 1, atr_period |-> 1, atr_lookback_period |-> 1]

\* Stand-in for the literal floor of get_max_klines (100 in the source):
\* the buffer keeps at most Max(3 * longest period, KlinesFloor) candles.
KlinesFloor == 4

\* Candle open_time values run over 1..MaxTime.
MaxTime == 5

\* A run holds at most MaxCycles decision cycles.
MaxCycles == 2

\* The signal engine is studied on buffers of at most MaxCandles candles.
MaxCandles == 4

\* Settings.MAX_LEVERAGE, Settings.POSITION_SIZE_PERCENT (defaults) and
\* Settings.MIN_ORDER_SIZE in units of 0.001 (the quantity step).
MAX_LEVERAGE == 1
POSITION_SIZE_PERCENT == 10
MIN_ORDER_SIZE == 1

Max(a, b) == IF a >= b THEN a ELSE b
Min(a, b) == IF a <= b THEN a ELSE b
Abs(a) == IF a >= 0 THEN a ELSE -a

\* A price in the units the trailing stop computes in (1/AtrPeriod).
Px(p) == p * AtrPeriod

-----------------------------------------------------------------------------
(* Candles and the strategy's buffer                                       *)

Kline(t, h, l, c) == [open_time |-> t, high |-> h, low |-> l, close |-> c]

\* IFRStrategy.get_max_klines
get_max_klines ==
    LET max_period == Max(cfg.rsi_period,
                          Max(cfg.atr_period, cfg.atr_lookback_period))
    IN  Max(max_period * 3, KlinesFloor)

\* self.klines[-n:] for n > 0
LastN(ks, n) ==
    IF Len(ks) > n THEN SubSeq(ks, Len(ks) - n + 1, Len(ks)) ELSE ks

\* Mutation of add_kline: the buffer is never cut back to get_max_klines.
add_kline_NoTrim(ks, kline) ==
    IF ks = <<>> THEN <<kline>>
    ELSE IF kline.open_time = ks[Len(ks)].open_time
         THEN [ks EXCEPT ![Len(ks)] = kline]
         ELSE IF kline.open_time > ks[Len(ks)].open_time
              THEN Append(ks, kline)
              ELSE ks

\* Mutation of add_kline: a candle older than the last one overwrites it.
add_kline_StaleReplaces(ks, kline) ==
    IF ks = <<>> THEN <<kline>>
    ELSE IF kline.open_time <= ks[Len(ks)].open_time
         THEN [ks EXCEPT ![Len(ks)] = kline]
         ELSE LastN(Append(ks, kline), get_max_klines)

\* BaseStrategy.add_kline: the buffer after add_kline(kline).
add_kline(ks, kline) ==
    IF ks = <<>> THEN LastN(<<kline>>, get_max_klines)
    ELSE IF kline.open_time = ks[Len(ks)].open_time
         THEN LastN([ks EXCEPT ![Len(ks)] = kline], get_max_klines)
         ELSE IF kline.open_time > ks[Len(ks)].open_time
              THEN LastN(Append(ks, kline), get_max_klines)
              ELSE ks

-----------------------------------------------------------------------------
(* TrailingStop                                                            *)

\* self.state = None
NoState == [is_active |-> FALSE, highest_price |-> 0, lowest_price |-> 0,
            current_stop |-> 0, entry_price |-> 0, position_side |-> "NONE"]

\* Row i of the data frame built from the last atr_period + 1 candles:
\* max(high - low, |high - previous close|, |low - previous close|).
TrueRange(k, prev) ==
    Max(k.high - k.low, Max(Abs(k.high - prev.close), Abs(k.low - prev.close)))

RECURSIVE SumTR(_, _)
\* Sum of the true ranges of the last n candles of ks (each against the
\* candle before it).
SumTR(ks, n) ==
    IF n = 0 THEN 0
    ELSE TrueRange(ks[Len(ks)], ks[Len(ks) - 1])
         + SumTR(SubSeq(ks, 1, Len(ks) - 1), n - 1)

\* TrailingStop._calculate_atr, in units of 1/AtrPeriod: 0 without enough
\* candles, else the mean of the last atr_period true ranges.
_calculate_atr(ks) ==
    IF Len(ks) < AtrPeriod + 1 THEN 0 ELSE SumTR(ks, AtrPeriod)

\* Mutation of activate: the initial stop is always the entry price.
activate_StopAtEntry(entry_price, position_side, ks) ==
    [is_active |-> TRUE,
     highest_price |-> entry_price,
     lowest_price |-> entry_price,
     current_stop |-> entry_price,
     entry_price |-> entry_price,
     position_side |-> position_side]

\* TrailingStop.activate
activate(entry_price, position_side, ks) ==
    LET atr == _calculate_atr(ks)
        stop_distance == atr * AtrMultiplier
        initial_stop ==
            IF Len(ks) >= AtrPeriod + 1 /\ atr > 0
            THEN IF position_side = "LONG"
                 THEN entry_price - stop_distance
                 ELSE entry_price + stop_distance
            ELSE entry_price
    IN [is_active |-> TRUE,
        highest_price |-> entry_price,
        lowest_price |-> entry_price,
        current_stop |-> initial_stop,
        entry_price |-> entry_price,
        position_side |-> position_side]

\* TrailingStop.deactivate
deactivate == NoState

\* TrailingStop.calculate_trailing_stop_points, in units of 1/AtrPeriod.
calculate_trailing_stop_points(ks) == _calculate_atr(ks) * AtrMultiplier

\* Mutation of RatchetLong: the stop follows the candidate down as well.
RatchetLongLoose(current_stop, new_stop) == new_stop

\* update, LONG: "Stop so pode subir, nunca descer".
RatchetLong(current_stop, new_stop) ==
    IF new_stop > current_stop THEN new_stop ELSE current_stop

\* update, SHORT: the stop is taken when it still equals the entry price
\* or when the candidate is lower.
RatchetShort(current_stop, entry_price, new_stop) ==
    IF current_stop = entry_price \/ new_stop < current_stop
    THEN new_stop ELSE current_stop

\* Mutation of UpdateState: without a volatility the extremes still follow
\* the price.
UpdateState_TracksWithoutAtr(st, current_price, ks) ==
    IF ~st.is_active THEN st
    ELSE IF st.position_side = "LONG"
    THEN [st EXCEPT !.highest_price = Max(st.highest_price, current_price)]
    ELSE [st EXCEPT !.lowest_price = Min(st.lowest_price, current_price)]

\* The state update(current_price, klines) leaves behind.
UpdateState(st, current_price, ks) ==
    LET atr == _calculate_atr(ks)
        stop_distance == atr * AtrMultiplier
    IN  IF ~st.is_active \/ atr = 0 THEN st
        ELSE IF st.position_side = "LONG"
        THEN IF current_price > st.highest_price
             THEN [st EXCEPT !.highest_price = current_price,
                             !.current_stop =
                                 RatchetLong(st.current_stop,
                                             current_price - stop_distance)]
             ELSE st
        ELSE IF current_price < st.lowest_price
             THEN [st EXCEPT !.lowest_price = current_price,
                             !.current_stop =
                                 RatchetShort(st.current_stop, st.entry_price,
                                              current_price + stop_distance)]
             ELSE st

\* Mutation of BreachLong: a price equal to the stop is not a breach.
BreachLongStrict(current_price, current_stop) == current_price < current_stop

\* Mutation of BreachLong: the comparison is turned around.
BreachLongInverted(current_price, current_stop) == current_price >= current_stop

\* update, LONG: "Verificar se preco atual atingiu o stop".
BreachLong(current_price, current_stop) == current_price <= current_stop

\* Mutation of BreachShort: a price equal to the stop is not a breach.
BreachShortStrict(current_price, current_stop) == current_price > current_stop

\* update, SHORT: the same check for a short position.
BreachShort(current_price, current_stop) == current_price >= current_stop

\* The value update(current_price, klines) returns: <<>> for None, else
\* <<stop price>>.  st1 is the state after the ratchet step.
UpdateReturn(st, current_price, ks) ==
    LET st1 == UpdateState(st, current_price, ks)
    IN  IF ~st.is_active \/ _calculate_atr(ks) = 0 THEN <<>>
        ELSE IF st1.position_side = "LONG"
        THEN IF BreachLong(current_price, st1.current_stop)
             THEN <<st1.current_stop>> ELSE <<>>
        ELSE IF BreachShort(current_price, st1.current_stop)
             THEN <<st1.current_stop>> ELSE <<>>

-----------------------------------------------------------------------------
(* The trailing stop on its own: any sequence of activate / update /       *)
(* deactivate calls, each with a price and a candle window of its own.     *)

\* Candle shapes of the windows, around a close of 100: no range, a true
\* range of 2 and a true range of 3.
Flat(t) == Kline(t, 100, 100, 100)
Range2(t) == Kline(t, 101, 99, 100)
Range3(t) == Kline(t, 102, 99, 100)

\* Windows handed to activate and update: none, one candle short of
\* atr_period + 1, flat, and every mix of the two ranging shapes.
Windows ==
    {<<>>, [i \in 1..AtrPeriod |-> Range2(i)], [i \in 1..(AtrPeriod + 1) |-> Flat(i)]}
    \cup {[i \in 1..(AtrPeriod + 1) |-> IF i \in S THEN Range3(i) ELSE Range2(i)] :
             S \in SUBSET (1..(AtrPeriod + 1))}

\* Prices handed to activate and update.
Prices == {95, 96, 100, 105, 106, 110}

\* The venue holds no position.
NoPosition == [side |-> "None", size |-> 0, entry_price |-> 0]

\* op, for the calls of this specification:
\*   name     the call ("init", "activate", "update", "deactivate")
\*   price    its price argument, atr the ATR of its window
\*   prev     the controller state before the call
\*   ret      what it returned (<<>> for None)
\*   updates  update calls since the last activate, counted up to 2
\*   moved    an update before this call, since the last activate, changed
\*            current_stop
\*   side     (activate only) its position_side argument
\*   candles  (activate only) the length of its window
InitTS ==
    /\ RunIdle
    /\ klines = <<>>
    /\ state = NoState
    /\ current_side = "None"
    /\ venue = NoPosition
    /\ pending = <<>>
    /\ cycles = 0
    /\ op = [name |-> "init", price |-> 0, atr |-> 0, prev |-> NoState,
             ret |-> <<>>, updates |-> 0, moved |-> FALSE]

TSActivate ==
    \E p \in Prices, side \in {"LONG", "SHORT"}, w \in Windows :
        /\ state' = activate(Px(p), side, w)
        /\ op' = [name |-> "activate", price |-> Px(p),
                  atr |-> _calculate_atr(w), prev |-> state, ret |-> <<>>,
                  updates |-> 0, moved |-> FALSE,
                  side |-> side, candles |-> Len(w)]
        /\ UNCHANGED <<klines, current_side, venue, pending, cycles>>
        /\ UNCHANGED run_vars

TSUpdate ==
    \E p \in Prices, w \in Windows :
        /\ state' = UpdateState(state, Px(p), w)
        /\ op' = [name |-> "update", price |-> Px(p),
                  atr |-> _calculate_atr(w), prev |-> state,
                  ret |-> UpdateReturn(state, Px(p), w),
                  updates |-> Min(op.updates + 1, 2),
                  moved |-> (op.name = "update"
                             /\ (op.moved
                                 \/ op.prev.current_stop # state.current_stop))]
        /\ UNCHANGED <<klines, current_side, venue, pending, cycles>>
        /\ UNCHANGED run_vars

TSDeactivate ==
    /\ state' = deactivate
    /\ op' = [name |-> "deactivate", price |-> 0, atr |-> 0, prev |-> state,
              ret |-> <<>>, updates |-> 0, moved |-> FALSE]
    /\ UNCHANGED <<klines, current_side, venue, pending, cycles>>
    /\ UNCHANGED run_vars

NextTS == TSActivate \/ TSUpdate \/ TSDeactivate

SpecTS == InitTS /\ [][NextTS]_vars

\* An update call that found the controller ACTIVE for the given side.
UpdatedActive(side) ==
    /\ op.name = "update"
    /\ op.prev.is_active
    /\ op.prev.position_side = side

\* C1: Long ratchet.  An update of a controller that is ACTIVE for a Long
\* never leaves current_stop lower than it found it, and a stop it returns
\* is the stored one; so over any run of updates the stop never decreases.
C1_LongRatchet ==
    UpdatedActive("LONG") =>
        /\ state.current_stop >= op.prev.current_stop
        /\ (op.ret # <<>> => op.ret = <<state.current_stop>>)

\* C1 witness: a Long update set a new highest price while the candidate
\* stop was not above the current one, and the stop stayed where it was.
C1_Witness ==
    /\ UpdatedActive("LONG")
    /\ state.highest_price > op.prev.highest_price
    /\ state.highest_price - op.atr * AtrMultiplier < op.prev.current_stop
    /\ state.current_stop = op.prev.current_stop

\* C2: Short ratchet.  For a controller ACTIVE for a Short, once an update
\* after activation has set current_stop, no later update raises it.
C2_ShortRatchet ==
    (UpdatedActive("SHORT") /\ op.updates >= 2 /\ op.moved) =>
        state.current_stop <= op.prev.current_stop

\* The controller of the spec example: Long, entered at 100, with the given
\* highest price and stop.
ExampleLong(highest, stop) ==
    [is_active |-> TRUE, highest_price |-> Px(highest),
     lowest_price |-> Px(100), current_stop |-> Px(stop),
     entry_price |-> Px(100), position_side |-> "LONG"]

\* C9: spec example, steps 1, 2 and 4.  Activating a Long at 100 on a window
\* of volatility 2 gives the stop 96; from there an update at 110 with
\* volatility 2 gives the stop 106 and no breach; from there an update at
\* any price <= 106, on any window that has a volatility, returns 106.
C9_Example ==
    /\ (op.name = "activate" /\ op.price = Px(100) /\ op.atr = Px(2)
            /\ state.position_side = "LONG")
        => state = ExampleLong(100, 96)
    /\ (op.name = "update" /\ op.prev = ExampleLong(100, 96)
            /\ op.price = Px(110) /\ op.atr = Px(2))
        => (state = ExampleLong(110, 106) /\ op.ret = <<>>)
    /\ (op.name = "update" /\ op.prev = ExampleLong(110, 106)
            /\ op.price <= Px(106) /\ op.atr > 0)
        => (op.ret = <<Px(106)>> /\ state = ExampleLong(110, 106))

\* C9 witness: the example's controller, ratcheted to 106 by the update at
\* 110, was updated at exactly 106 and returned the breach.
C9_Witness ==
    /\ op.name = "update"
    /\ op.prev = ExampleLong(110, 106)
    /\ op.price = Px(106)
    /\ op.ret = <<Px(106)>>

\* C10 as stated: the example's controller with stop 106 (highest 110),
\* updated at 105, reports no breach and keeps the stop at 106.
C10_NoBreachAt105 ==
    (op.name = "update" /\ op.prev = ExampleLong(110, 106)
        /\ op.price = Px(105) /\ op.atr > 0)
    => (op.ret = <<>> /\ state.current_stop = Px(106))

\* C10 amended: that update at 105 keeps the stop at 106 and reports the
\* breach, returning 106 (105 is at or below the stop).
C10_BreachAt105 ==
    (op.name = "update" /\ op.prev = ExampleLong(110, 106)
        /\ op.price = Px(105) /\ op.atr > 0)
    => (op.ret = <<Px(106)>> /\ state = ExampleLong(110, 106))

\* C10 witness: the update at 105 of the example's controller happened.
C10_Witness ==
    /\ op.name = "update"
    /\ op.prev = ExampleLong(110, 106)
    /\ op.price = Px(105)
    /\ op.atr = Px(2)

\* An update call that found the controller ACTIVE and whose window had a
\* volatility.
UpdatedWithVolatility ==
    /\ op.name = "update"
    /\ op.prev.is_active
    /\ op.atr > 0

\* C21: breach rule.  An update of an ACTIVE controller on a window with a
\* volatility returns the stop the controller holds after the call when the
\* price is at or below that stop (Long) or at or above it (Short), and
\* returns None in every other case.
C21_BreachRule ==
    UpdatedWithVolatility =>
        LET breach == IF op.prev.position_side = "LONG"
                      THEN op.price <= state.current_stop
                      ELSE op.price >= state.current_stop
        IN  op.ret = (IF breach THEN <<state.current_stop>> ELSE <<>>)

\* C21 witness: an update of a Short at a price equal to the stop reported
\* the breach and returned the stop.
C21_Witness ==
    /\ UpdatedWithVolatility
    /\ op.prev.position_side = "SHORT"
    /\ op.price = state.current_stop
    /\ op.ret = <<state.current_stop>>

\* C29: activate(entry_price, side, window) leaves the controller ACTIVE on
\* the given side with both extremes and the entry price equal to entry_price;
\* the stop is entry_price minus (Long) or plus (Short) volatility times the
\* multiplier when the window has at least atr_period + 1 candles and a
\* positive volatility, and entry_price otherwise.
C29_Activate ==
    op.name = "activate" =>
        /\ state.is_active
        /\ state.position_side = op.side
        /\ state.highest_price = op.price
        /\ state.lowest_price = op.price
        /\ state.entry_price = op.price
        /\ state.current_stop =
               (IF op.candles >= AtrPeriod + 1 /\ op.atr > 0
                THEN IF op.side = "LONG"
                     THEN op.price - op.atr * AtrMultiplier
                     ELSE op.price + op.atr * AtrMultiplier
                ELSE op.price)

\* C29 witness: a Short activated on a full window with a volatility got a
\* stop above its entry price.
C29_Witness ==
    /\ op.name = "activate"
    /\ op.side = "SHORT"
    /\ op.candles >= AtrPeriod + 1
    /\ op.atr > 0
    /\ state.current_stop > state.entry_price

\* C30: an update of an INACTIVE controller, or on a window without a
\* volatility, returns None and leaves the whole controller state as it was.
C30_UpdateNoOp ==
    (op.name = "update" /\ (~op.prev.is_active \/ op.atr = 0)) =>
        /\ op.ret = <<>>
        /\ state = op.prev

\* C30 witness: an ACTIVE Long was updated without a volatility at a price
\* below its stop and above no extreme it held, and nothing changed.
C30_Witness ==
    /\ op.name = "update"
    /\ op.prev.is_active
    /\ op.prev.position_side = "LONG"
    /\ op.atr = 0
    /\ op.price < op.prev.current_stop
    /\ op.ret = <<>>
    /\ state = op.prev

\* C31: every update of an ACTIVE controller on a window with a volatility
\* applies the candidate stop through the ratchet: afterwards a Long's stop
\* is the larger of the previous stop and highest_price minus volatility
\* times the multiplier, a Short's the smaller of the previous stop and
\* lowest_price plus that distance, whether or not the price set a new
\* extreme.
C31_CandidateEveryUpdate ==
    UpdatedWithVolatility =>
        state.current_stop =
            (IF op.prev.position_side = "LONG"
             THEN Max(op.prev.current_stop,
                      state.highest_price - op.atr * AtrMultiplier)
             ELSE Min(op.prev.current_stop,
                      state.lowest_price + op.atr * AtrMultiplier))

\* C32: for a controller activated without enough history (its stop equal
\* to its entry price), the first update after the activation that has a
\* volatility sets the stop to highest_price minus volatility times the
\* multiplier for a Long and to lowest_price plus that distance for a Short.
C32_FirstUpdateSetsStop ==
    (UpdatedWithVolatility /\ op.updates = 1
        /\ op.prev.current_stop = op.prev.entry_price)
    => state.current_stop =
           (IF op.prev.position_side = "LONG"
            THEN state.highest_price - op.atr * AtrMultiplier
            ELSE state.lowest_price + op.atr * AtrMultiplier)

-----------------------------------------------------------------------------
(* The candle buffer on its own: any sequence of add_kline calls on a      *)
(* buffer that starts empty.                                               *)

\* Candles fed to the buffer: any open_time, two contents per open_time.
FedKlines == {Flat(t) : t \in 1..MaxTime} \cup {Range2(t) : t \in 1..MaxTime}

\* op, for this specification: the candle fed and the buffer before the call.
InitBuf ==
    /\ RunIdle
    /\ klines = <<>>
    /\ state = NoState
    /\ current_side = "None"
    /\ venue = NoPosition
    /\ pending = <<>>
    /\ cycles = 0
    /\ op = [name |-> "init", kline |-> Flat(0), prev |-> <<>>]

BufAddKline ==
    \E k \in FedKlines :
        /\ klines' = add_kline(klines, k)
        /\ op' = [name |-> "add_kline", kline |-> k, prev |-> klines]
        /\ UNCHANGED <<state, current_side, venue, pending, cycles>>
        /\ UNCHANGED run_vars

NextBuf == BufAddKline

SpecBuf == InitBuf /\ [][NextBuf]_vars

\* C7: after every add_kline the buffer holds at most get_max_klines
\* candles and its open_time values are strictly increasing.
C7_BoundedIncreasing ==
    /\ Len(klines) <= get_max_klines
    /\ \A i, j \in 1..Len(klines) :
           i < j => klines[i].open_time < klines[j].open_time

\* C7 witness: a newer candle was added to a full buffer, which dropped its
\* oldest candle and is full again.
C7_Witness ==
    /\ op.name = "add_kline"
    /\ Len(op.prev) = get_max_klines
    /\ op.kline.open_time > op.prev[Len(op.prev)].open_time
    /\ Len(klines) = get_max_klines
    /\ klines[1] = op.prev[2]

\* C8: a candle with the last entry's open_time replaces that entry and
\* nothing else; a candle with a smaller open_time changes nothing.
C8_ReplaceOrIgnore ==
    (op.name = "add_kline" /\ op.prev # <<>>) =>
        LET n == Len(op.prev)
            last_kline == op.prev[n]
        IN  /\ op.kline.open_time = last_kline.open_time =>
                   /\ Len(klines) = n
                   /\ klines[n] = op.kline
                   /\ \A i \in 1..(n - 1) : klines[i] = op.prev[i]
            /\ op.kline.open_time < last_kline.open_time =>
                   klines = op.prev

\* C8 witness: a buffer of several candles received a revision of its last
\* candle with new content.
C8_Witness ==
    /\ op.name = "add_kline"
    /\ Len(op.prev) >= 2
    /\ op.kline.open_time = op.prev[Len(op.prev)].open_time
    /\ op.kline # op.prev[Len(op.prev)]
    /\ klines[Len(klines)] = op.kline

-----------------------------------------------------------------------------
(* PositionManager                                                         *)

\* Python's round() of the fraction n / d (d > 0): to nearest, ties to even.
RoundHalfEven(n, d) ==
    LET q == n \div d
        r == n % d
    IN  IF 2 * r < d THEN q
        ELSE IF 2 * r > d THEN q + 1
        ELSE IF q % 2 = 0 THEN q ELSE q + 1

\* calculate_position_size: capital_to_invest * leverage, in USDT, as the
\* fraction <<numerator, denominator>>.  available_capital is
\* available_balance, or 95% of wallet_balance when that is below 1 USDT.
LeveragedCapital(balance, leverage) ==
    LET low == balance.available_balance < 1
    IN  <<(IF low THEN balance.wallet_balance * 95
           ELSE balance.available_balance) * POSITION_SIZE_PERCENT * leverage,
          (IF low THEN 100 ELSE 1) * 100>>

\* Mutation of calculate_position_size: the minimum order size is not
\* checked before rounding.
calculate_position_size_NoMinimum(balance, entry_price, leverage) ==
    LET c == LeveragedCapital(balance, leverage)
    IN  IF entry_price <= 0 THEN 0
        ELSE RoundHalfEven(c[1] * 1000, c[2] * entry_price)

\* PositionManager.calculate_position_size, in units of 0.001.  The
\* quantity capital_to_invest * leverage / entry_price is the fraction
\* num / den of such units.
calculate_position_size(balance, entry_price, leverage) ==
    LET low == balance.available_balance < 1
        \* available_capital = cap_num / cap_den
        cap_num == IF low THEN balance.wallet_balance * 95
                   ELSE balance.available_balance
        cap_den == IF low THEN 100 ELSE 1
        num == cap_num * POSITION_SIZE_PERCENT * leverage * 1000
        den == cap_den * 100 * entry_price
    IN  IF entry_price <= 0 THEN 0
        ELSE IF num < MIN_ORDER_SIZE * den THEN 0
        ELSE RoundHalfEven(num, den)

-----------------------------------------------------------------------------
(* BybitClient and the venue behind it                                     *)

\* A request to place_order: qty in units of 0.001 (at least one unit),
\* accepted whether the venue took the order.  price is the close of the
\* candle being handled, at which an opening order executes (0 on a
\* reduce-only order, which opens nothing).
Order(side, qty, reduce_only, price, accepted) ==
    [side |-> side, qty |-> Max(qty, 1), reduce_only |-> reduce_only,
     price |-> IF reduce_only THEN 0 ELSE price, accepted |-> accepted]

\* Mutation of close_position: a rejected close order is sent once more.
close_position_Retry(position, price) ==
    LET side == IF position.side = "Long" THEN "Sell" ELSE "Buy"
    IN  IF position.size = 0
        THEN {[ret |-> TRUE, orders |-> <<>>, fetch |-> "ok"]}
        ELSE {[ret |-> TRUE, fetch |-> "ok",
               orders |-> <<Order(side, position.size, TRUE, price, TRUE)>>],
              [ret |-> TRUE, fetch |-> "ok",
               orders |-> <<Order(side, position.size, TRUE, price, FALSE),
                            Order(side, position.size, TRUE, price, TRUE)>>]}

\* BybitClient.close_position: what it may return and the orders it sends,
\* with the venue holding `position`.  Its own position fetch may succeed,
\* time out or fail otherwise; the reduce-only order may be rejected.
close_position(position, price) ==
    LET side == IF position.side = "Long" THEN "Sell" ELSE "Buy"
    IN  {[ret |-> TRUE, orders |-> <<>>, fetch |-> "timeout"],
         [ret |-> TRUE, orders |-> <<>>, fetch |-> "error"]}
        \cup
        IF position.size = 0
        THEN {[ret |-> TRUE, orders |-> <<>>, fetch |-> "ok"]}
        ELSE {[ret |-> TRUE, fetch |-> "ok",
               orders |-> <<Order(side, position.size, TRUE, price, TRUE)>>],
              [ret |-> FALSE, fetch |-> "ok",
               orders |-> <<Order(side, position.size, TRUE, price, FALSE)>>]}

\* The venue's position after it executes order o (one-way mode).
Execute(pos, o) ==
    LET oside == IF o.side = "Buy" THEN "Long" ELSE "Short"
    IN  IF pos.size = 0
        THEN IF o.reduce_only THEN pos
             ELSE [side |-> oside, size |-> o.qty, entry_price |-> o.price]
        ELSE IF pos.side = oside
        THEN IF o.reduce_only THEN pos
             ELSE [pos EXCEPT !.size = pos.size + o.qty]
        ELSE IF o.qty < pos.size
        THEN [pos EXCEPT !.size = pos.size - o.qty]
        ELSE IF o.qty = pos.size \/ o.reduce_only THEN NoPosition
        ELSE [side |-> oside, size |-> o.qty - pos.size,
              entry_price |-> o.price]

-----------------------------------------------------------------------------
(* execution.trader                                                        *)

\* Signal
Signals == {"LONG", "SHORT", "NEUTRAL", "CLOSE_LONG", "CLOSE_SHORT"}

\* strategy.calculate_signal(): Neutral with fewer than rsi_period + 2
\* candles (IFRStrategy); otherwise `decided`, what the strategy's
\* indicators decide (any Signal: the handler takes any BaseStrategy).
calculate_signal(ks, decided) ==
    IF Len(ks) < cfg.rsi_period + 2 THEN "NEUTRAL" ELSE decided

\* Mutation of SyncSide: local tracking is kept when the venue shows no
\* position.
SyncSideKeepLocal(position, local) ==
    IF position.size > 0 THEN position.side ELSE local

\* _handle_new_kline: "Sincronizar _current_side com a posicao real da API".
SyncSide(position, local) ==
    IF position.size > 0 THEN position.side ELSE "None"

\* Mutation of AlreadyOpen: the signal is never ignored.
AlreadyOpenNever(position, side) == FALSE

\* _handle_new_kline: the venue position is open on the signalled side.
AlreadyOpen(position, side) == position.size > 0 /\ position.side = side

\* What get_balance may return.
Balances == {[available_balance |-> 2, wallet_balance |-> 2],
             [available_balance |-> 1, wallet_balance |-> 2],
             [available_balance |-> 0, wallet_balance |-> 0]}

\* The outcome of a cycle: the handler's variables when it ends, the orders
\* it sent, and how it ended.  A cycle that called close_position has one
\* more field, fetch: how the position fetch inside close_position went.
Outcome(path, st, side, orders) ==
    [path |-> path, state |-> st, side |-> side, orders |-> orders]

\* Mutation of Entry: the controller is activated and the local side set
\* before place_order, so a rejected order leaves both behind.
Entry_ActivateFirst(signal, position, st, local, price, ks) ==
    LET side == IF signal = "LONG" THEN "Long" ELSE "Short"
        order_side == IF signal = "LONG" THEN "Buy" ELSE "Sell"
        local1 == IF local = side /\ position.size = 0 THEN "None" ELSE local
    IN  IF AlreadyOpen(position, side)
        THEN {Outcome("already_open", st, local, <<>>)}
        ELSE {Outcome("balance_failed", st, local1, <<>>)}
             \cup UNION {
                 LET qty == calculate_position_size(b, price, MAX_LEVERAGE)
                 IN  IF qty <= 0
                     THEN {Outcome("no_size", st, local1, <<>>)}
                     ELSE {Outcome("rejected", activate(Px(price), signal, ks),
                                   side,
                                   <<Order(order_side, qty, FALSE, price, FALSE)>>),
                           Outcome("entered", activate(Px(price), signal, ks),
                                   side,
                                   <<Order(order_side, qty, FALSE, price, TRUE)>>)}
                 : b \in Balances}

\* Mutation of Entry: a rejected order still sets the local side.
Entry_RejectedSetsSide(signal, position, st, local, price, ks) ==
    LET side == IF signal = "LONG" THEN "Long" ELSE "Short"
        order_side == IF signal = "LONG" THEN "Buy" ELSE "Sell"
        local1 == IF local = side /\ position.size = 0 THEN "None" ELSE local
    IN  IF AlreadyOpen(position, side)
        THEN {Outcome("already_open", st, local, <<>>)}
        ELSE {Outcome("balance_failed", st, local1, <<>>)}
             \cup UNION {
                 LET qty == calculate_position_size(b, price, MAX_LEVERAGE)
                 IN  IF qty <= 0
                     THEN {Outcome("no_size", st, local1, <<>>)}
                     ELSE {Outcome("rejected", st, side,
                                   <<Order(order_side, qty, FALSE, price, FALSE)>>),
                           Outcome("entered", activate(Px(price), signal, ks),
                                   side,
                                   <<Order(order_side, qty, FALSE, price, TRUE)>>)}
                 : b \in Balances}

\* _handle_new_kline, entry branch for signal LONG (side "Long", order
\* "Buy") or SHORT (side "Short", order "Sell"): every way it can end, from
\* controller state st and local side `local`.
Entry(signal, position, st, local, price, ks) ==
    LET side == IF signal = "LONG" THEN "Long" ELSE "Short"
        order_side == IF signal = "LONG" THEN "Buy" ELSE "Sell"
        local1 == IF local = side /\ position.size = 0 THEN "None" ELSE local
    IN  IF AlreadyOpen(position, side)
        THEN {Outcome("already_open", st, local, <<>>)}
        ELSE {Outcome("balance_failed", st, local1, <<>>)}
             \cup UNION {
                 LET qty == calculate_position_size(b, price, MAX_LEVERAGE)
                 IN  IF qty <= 0
                     THEN {Outcome("no_size", st, local1, <<>>)}
                     ELSE {Outcome("rejected", st, local1,
                                   <<Order(order_side, qty, FALSE, price, FALSE)>>),
                           Outcome("entered", activate(Px(price), signal, ks),
                                   side,
                                   <<Order(order_side, qty, FALSE, price, TRUE)>>)}
                 : b \in Balances}

\* Mutation of FetchFailed: the failed fetch is taken for "no position".
FetchFailed_NoPosition(st, local) == Outcome("fetch_failed", deactivate, "None", <<>>)

\* _handle_new_kline when client.get_position raises: the exception leaves
\* the handler before it assigns anything, from controller state st and
\* local side `local`.
FetchFailed(st, local) == Outcome("fetch_failed", st, local, <<>>)

\* _handle_new_kline after strategy.add_kline: every way the cycle can end
\* for the fed candle's close `price`, the buffer ks and the signal.
Cycle(price, ks, signal) ==
    LET position == venue
        has_position == position.size > 0
        local == SyncSide(position, current_side)
        pos_side == IF position.side = "Long" THEN "LONG" ELSE "SHORT"
        st0 == IF has_position /\ state = NoState
               THEN activate(Px(position.entry_price), pos_side, ks)
               ELSE state
        stop_price == IF has_position
                      THEN UpdateReturn(st0, Px(price), ks) ELSE <<>>
        st == IF has_position THEN UpdateState(st0, Px(price), ks) ELSE state
    IN  {FetchFailed(state, current_side)}
        \cup
        IF stop_price # <<>>
        THEN {Outcome("breach", deactivate, local, c.orders)
                  @@ [fetch |-> c.fetch] :
                c \in close_position(position, price)}
        ELSE IF signal \in {"LONG", "SHORT"}
        THEN Entry(signal, position, st, local, price, ks)
        ELSE IF signal \in {"CLOSE_LONG", "CLOSE_SHORT"} /\ has_position
        THEN {(IF c.ret
               THEN Outcome("closed", deactivate, "None", c.orders)
               ELSE Outcome("close_failed", st, local, c.orders))
                  @@ [fetch |-> c.fetch] :
                c \in close_position(position, price)}
        ELSE {Outcome("idle", st, local, <<>>)}

\* The orders of a sequence that the venue accepted.
Accepted(orders) == SelectSeq(orders, LAMBDA o : o.accepted)

\* Candle contents of the live feed: closes of 94, 100 and 106.
Close94(t) == Kline(t, 95, 93, 94)
Close100(t) == Kline(t, 101, 99, 100)
Close106(t) == Kline(t, 107, 105, 106)

\* The candles the stream may deliver next: a revision of the last candle,
\* the next candle, or a late copy of the one before.
LiveKlines ==
    LET last == IF klines = <<>> THEN 0 ELSE klines[Len(klines)].open_time
    IN  {k \in UNION {{Close94(t), Close100(t), Close106(t)} :
                        t \in {last - 1, last, last + 1}} :
            k.open_time \in 1..MaxTime}

\* What op keeps of an order: not its price.
Sent(o) == [side |-> o.side, qty |-> o.qty, reduce_only |-> o.reduce_only,
            accepted |-> o.accepted]

\* run_trader up to the subscription: the buffer holds get_max_klines
\* historical candles, the venue holds no position, nothing is tracked.
\* op, for this specification, is the record of the last cycle:
\*   signal       the signal the cycle decided on
\*   path         how it ended ("fetch_failed": its position fetch failed;
\*                "entered": it sent an entry order the venue accepted)
\*   prev_side    _current_side before it
\*   synced_side  _current_side right after the fetch was reconciled
\*   orders       the orders it sent
\*   close_fetch  how the position fetch inside close_position went ("ok",
\*                "timeout", "error"), "none" when the cycle did not call it
\*   stop_sent    it called set_trading_stop (after an accepted entry, when
\*                calculate_trailing_stop_points is positive)
Init ==
    /\ RunIdle
    /\ klines = [i \in 1..get_max_klines |-> Close100(i)]
    /\ state = NoState
    /\ current_side = "None"
    /\ venue = NoPosition
    /\ pending = <<>>
    /\ cycles = 0
    /\ op = [name |-> "init", signal |-> "NEUTRAL", path |-> "init",
             prev_side |-> "None", synced_side |-> "None", orders |-> <<>>,
             close_fetch |-> "none", stop_sent |-> FALSE]

\* ws_callback -> _handle_new_kline: one decision cycle, run to its end.
HandleNewKline ==
    \E k \in LiveKlines, decided \in Signals :
        LET ks == add_kline(klines, k)
            signal == calculate_signal(ks, decided)
        IN  \E out \in Cycle(k.close, ks, signal) :
                /\ cycles < MaxCycles
                /\ klines' = ks
                /\ state' = out.state
                /\ current_side' = out.side
                /\ pending' = pending \o Accepted(out.orders)
                /\ cycles' = cycles + 1
                /\ op' = [name |-> "cycle", signal |-> signal,
                          path |-> out.path,
                          prev_side |-> current_side,
                          synced_side |-> IF out.path = "fetch_failed"
                                          THEN current_side
                                          ELSE SyncSide(venue, current_side),
                          orders |-> [i \in 1..Len(out.orders) |->
                                         Sent(out.orders[i])],
                          close_fetch |-> IF "fetch" \in DOMAIN out
                                          THEN out.fetch ELSE "none",
                          stop_sent |->
                              (out.path = "entered"
                               /\ calculate_trailing_stop_points(ks) > 0)]
                /\ UNCHANGED <<venue, run_vars>>

\* The venue executes the oldest order it holds.
VenueExecute ==
    /\ pending # <<>>
    /\ venue' = Execute(venue, Head(pending))
    /\ pending' = Tail(pending)
    /\ UNCHANGED <<klines, state, current_side, cycles, op>>
    /\ UNCHANGED run_vars

\* The venue closes the position itself (its own trailing stop, or a
\* liquidation).
VenueClose ==
    /\ venue.size > 0
    /\ venue' = NoPosition
    /\ UNCHANGED <<klines, state, current_side, pending, cycles, op>>
    /\ UNCHANGED run_vars

Next == HandleNewKline \/ VenueExecute \/ VenueClose

Spec == Init /\ [][Next]_vars

\* A step that is a decision cycle whose position fetch succeeded: venue,
\* unprimed, is the position it fetched, and op' is its record.
FetchedCycle == cycles' = cycles + 1 /\ op'.path # "fetch_failed"

\* The entry orders among the orders a cycle sent.
EntryOrders(orders) == SelectSeq(orders, LAMBDA o : ~o.reduce_only)

\* The side a signal enters on.
SignalSide(signal) == IF signal = "LONG" THEN "Long" ELSE "Short"

\* C3: a cycle whose signal is LONG (SHORT) and whose fetched position is
\* open on the Long (Short) side submits no entry order.
C3_IdempotentEntry ==
    [][(/\ FetchedCycle
        /\ op'.signal \in {"LONG", "SHORT"}
        /\ venue.size > 0
        /\ venue.side = SignalSide(op'.signal))
       => EntryOrders(op'.orders) = <<>>]_vars

\* C3: a LONG signal was repeated on an open Long position and ignored.
C3_Witness ==
    /\ op.name = "cycle" /\ op.signal = "LONG" /\ op.path = "already_open"
    /\ op.prev_side = "Long"
    /\ venue.size > 0 /\ venue.side = "Long"

\* C4: when the previous cycle submitted an entry order the venue accepted,
\* and this cycle carries the same signal while its fetch shows no position
\* yet, this cycle submits no entry order.
C4_LatencyWindow ==
    [][(/\ FetchedCycle
        /\ op.name = "cycle" /\ op.path = "entered"
        /\ op'.signal = op.signal
        /\ venue.size = 0)
       => EntryOrders(op'.orders) = <<>>]_vars

\* C5: in a cycle whose position fetch succeeded, _current_side right
\* after the fetch is the fetched position's side when its size is
\* positive and None otherwise.
C5_RemoteWins ==
    [][FetchedCycle
       => op'.synced_side = (IF venue.size > 0 THEN venue.side ELSE "None")]_vars

\* C5: a cycle found Long tracked locally and no position at the venue.
C5_Witness ==
    /\ op.name = "cycle" /\ op.path # "fetch_failed"
    /\ op.prev_side = "Long" /\ op.synced_side = "None"

\* C6: a cycle whose fetch shows no open position and which opens none
\* ends with the trailing stop controller inactive.
C6_StaleDeactivated ==
    [][(/\ FetchedCycle
        /\ venue.size = 0
        /\ op'.path # "entered")
       => ~state'.is_active]_vars

-----------------------------------------------------------------------------
(* run_optimization -> OPTIMIZED_PARAMS_FILE -> run_trader                 *)

\* Numbers as Python holds them: a type and a value.  The value of a float
\* is in tenths (30.0 is PyFloat(300)), the value of an integer is itself.
NpInt(n) == [type |-> "np.int64", value |-> n]
NpFloat(n) == [type |-> "np.float64", value |-> n]
PyInt(n) == [type |-> "int", value |-> n]
PyFloat(n) == [type |-> "float", value |-> n]

\* int(v): integers as they are, floats truncated.
int(v) == IF v.type \in {"int", "np.int64"} THEN v.value ELSE v.value \div 10

\* float(v), in tenths.
float(v) == IF v.type \in {"float", "np.float64"} THEN v.value
            ELSE v.value * 10

\* dict.get(key, default)
get(d, key, default) == IF key \in DOMAIN d THEN d[key] ELSE default

\* The empty dict.
EmptyDict == [k \in {} |-> PyInt(0)]

\* IFRStrategy.__init__: the IFRParams built from a params dict.
IFRStrategy(params) ==
    [rsi_period |-> int(get(params, "rsi_period", PyInt(14))),
     oversold_level |-> float(get(params, "oversold_level", PyFloat(300))),
     overbought_level |-> float(get(params, "overbought_level", PyFloat(700))),
     volatility_period |-> int(get(params, "volatility_period", PyInt(14))),
     atr_period |-> int(get(params, "atr_period", PyInt(14))),
     atr_lookback_period |-> int(get(params, "atr_lookback_period", PyInt(20))),
     atr_min_multiplier |-> float(get(params, "atr_min_multiplier", PyFloat(0))),
     atr_max_multiplier |-> float(get(params, "atr_max_multiplier",
                                      PyFloat(9990)))]

\* _backtest: the TrailingStop it builds from ts_params.
BacktestTrailingStop(ts_params) ==
    [atr_multiplier |-> float(get(ts_params, "atr_multiplier", PyFloat(20))),
     atr_period |-> int(get(ts_params, "atr_period", PyInt(14)))]

\* _build_search_space: the dimensions, in order.  A dimension named
\* "<group>__<key>" is the pair <<group, key>>; an Integer dimension has
\* integer bounds, a Real dimension bounds in tenths.
search_space ==
    <<[name |-> <<"strategy", "rsi_period">>, kind |-> "Integer",
       low |-> 5, high |-> 30],
      [name |-> <<"strategy", "oversold_level">>, kind |-> "Real",
       low |-> 200, high |-> 400],
      [name |-> <<"strategy", "overbought_level">>, kind |-> "Real",
       low |-> 600, high |-> 800],
      [name |-> <<"strategy", "volatility_period">>, kind |-> "Integer",
       low |-> 10, high |-> 30],
      [name |-> <<"strategy", "atr_period">>, kind |-> "Integer",
       low |-> 10, high |-> 30],
      [name |-> <<"strategy", "atr_lookback_period">>, kind |-> "Integer",
       low |-> 10, high |-> 50],
      [name |-> <<"strategy", "atr_min_multiplier">>, kind |-> "Real",
       low |-> 1, high |-> 10],
      [name |-> <<"strategy", "atr_max_multiplier">>, kind |-> "Real",
       low |-> 10, high |-> 30],
      [name |-> <<"trailing_stop", "atr_multiplier">>, kind |-> "Real",
       low |-> 10, high |-> 40],
      [name |-> <<"trailing_stop", "atr_period">>, kind |-> "Integer",
       low |-> 10, high |-> 20]>>

dim_names == [i \in 1..Len(search_space) |-> search_space[i].name]

\* _params_from_vector: the vector split into the strategy dict and the
\* trailing-stop dict by the prefix of each dimension's name.
_params_from_vector(names, x) ==
    LET idx(group) == {i \in 1..Len(names) : names[i][1] = group}
        keys(group) == {names[i][2] : i \in idx(group)}
        at(group, k) == x[CHOOSE i \in idx(group) : names[i][2] = k]
    IN  <<[k \in keys("strategy") |-> at("strategy", k)],
          [k \in keys("trailing_stop") |-> at("trailing_stop", k)]>>

\* The points gp_minimize may propose or return: every dimension at its
\* lower bound except those of `highs`, at their upper bound; an Integer
\* dimension holds a numpy integer, a Real dimension a float of the given
\* type.
Point(highs, real_type) ==
    [i \in 1..Len(search_space) |->
        LET d == search_space[i]
            v == IF i \in highs THEN d.high ELSE d.low
        IN  IF d.kind = "Integer" THEN NpInt(v)
            ELSE [type |-> real_type, value |-> v]]

Points ==
    {Point(highs, t) :
        highs \in {{}} \cup {{i} : i \in 1..Len(search_space)}
                  \cup {1..Len(search_space)},
        t \in {"float", "np.float64"}}

\* What _backtest may return: total return (in tenths) and trade count.
BacktestResults ==
    {[total_return |-> r, trade_count |-> n] :
        r \in {-5, 0, 12}, n \in {0, 4, 5, 6}}

\* Mutation of objective: the penalty is skipped.
objective_NoPenalty(total_return, trade_count) == -total_return

\* run_optimization.objective on the result of its backtest: 1.0 when
\* trade_count < 5, else -total_return (tenths).
objective(total_return, trade_count) ==
    IF trade_count < 5 THEN 10 ELSE -total_return

\* _convert_to_native_types on a number.
_convert_to_native_types(v) ==
    IF v.type = "np.int64" THEN PyInt(v.value)
    ELSE IF v.type = "np.float64" THEN PyFloat(v.value)
    ELSE v

\* _convert_to_native_types on a dict of numbers.
ConvertDict(d) == [k \in DOMAIN d |-> _convert_to_native_types(d[k])]

\* Whether json.dumps can serialise a dict of numbers.
Serializable(d) == \A k \in DOMAIN d : d[k].type \in {"int", "float"}

\* Whether json.dumps can serialise `result`: its strings always, its
\* dicts when their numbers are native.
JsonSerializable(result) ==
    \A f \in DOMAIN result \ {"strategy_name", "symbol", "timeframe"} :
        Serializable(result[f])

\* Mutation of ResultDocument: the parameter dicts are written under the
\* keys strategy_params and trailing_stop_params.
ResultDocument_ParamsKeys(strategy_params, ts_params, bt) ==
    [strategy_params |-> ConvertDict(strategy_params),
     strategy_name |-> "IFRStrategy",
     trailing_stop_params |-> ConvertDict(ts_params),
     symbol |-> "BTCUSDT",
     timeframe |-> "5",
     metrics |-> [total_return |-> PyFloat(bt.total_return),
                  total_trades |-> PyInt(bt.trade_count)]]

\* run_optimization: `result` after _convert_to_native_types.
ResultDocument(strategy_params, ts_params, bt) ==
    [strategy |-> ConvertDict(strategy_params),
     strategy_name |-> "IFRStrategy",
     trailing_stop |-> ConvertDict(ts_params),
     symbol |-> "BTCUSDT",
     timeframe |-> "5",
     metrics |-> [total_return |-> PyFloat(bt.total_return),
                  total_trades |-> PyInt(bt.trade_count)]]

\* _load_strategy_from_params: the params dict the strategy is built from.
LoadedStrategyParams(opt_params) == get(opt_params, "strategy", EmptyDict)

\* Mutation of LoadedTrailingParams: the dict is read from the key
\* trailing_stop_params.
LoadedTrailingParams_ParamsKey(opt_params) ==
    get(opt_params, "trailing_stop_params", EmptyDict)

\* run_trader: trailing_params.
LoadedTrailingParams(opt_params) == get(opt_params, "trailing_stop", EmptyDict)

\* run_trader: the TrailingStop it builds; atr_multiplier is stored as read
\* (its value, in tenths).
TraderTrailingStop(trailing_params) ==
    [atr_multiplier |-> float(get(trailing_params, "atr_multiplier",
                                  PyFloat(20))),
     atr_period |-> int(get(trailing_params, "atr_period", PyInt(14)))]

InitOpt ==
    /\ klines = <<>>
    /\ state = NoState
    /\ current_side = "None"
    /\ venue = NoPosition
    /\ pending = <<>>
    /\ cycles = 0
    /\ RunIdle
    /\ op = [name |-> "init"]

\* gp_minimize calls objective on a point: the backtest runs and the
\* objective value is returned.  The file is not written until the search
\* has ended.
Objective ==
    \E x \in Points, bt \in BacktestResults :
        /\ params_file = NoFile
        /\ op' = [name |-> "objective", x |-> x,
                  total_return |-> bt.total_return,
                  trade_count |-> bt.trade_count,
                  value |-> objective(bt.total_return, bt.trade_count)]
        /\ UNCHANGED <<klines, state, current_side, venue, pending, cycles,
                       run_vars>>

\* run_optimization after gp_minimize: the best vector is split, the
\* backtest is run once more with it, and the document is written.
WriteParams ==
    \E x \in Points, bt \in BacktestResults :
        LET best == _params_from_vector(dim_names, x)
            result == ResultDocument(best[1], best[2], bt)
        IN  /\ params_file = NoFile
            /\ JsonSerializable(result)
            /\ params_file' = result
            /\ op' = [name |-> "write", x |-> x,
                      backtest_cfg |-> IFRStrategy(best[1]),
                      backtest_ts |-> BacktestTrailingStop(best[2])]
            /\ UNCHANGED <<klines, state, current_side, venue, pending,
                           cycles, stop_event, ws, pc, callback, backtest>>

\* run_trader up to the construction of the TrailingStop:
\* _load_optimized_params raises when the file does not exist and
\* _load_strategy_from_params when the strategy name is not IFRStrategy.
LoadParams ==
    /\ op.name \in {"write", "load"}
    /\ params_file # NoFile
    /\ get(params_file, "strategy_name", "IFRStrategy") = "IFRStrategy"
    /\ op' = [name |-> "load", x |-> op.x,
              backtest_cfg |-> op.backtest_cfg,
              backtest_ts |-> op.backtest_ts,
              strategy_params |-> LoadedStrategyParams(params_file),
              trailing_params |-> LoadedTrailingParams(params_file),
              cfg |-> IFRStrategy(LoadedStrategyParams(params_file)),
              ts |-> TraderTrailingStop(LoadedTrailingParams(params_file))]
    /\ UNCHANGED <<klines, state, current_side, venue, pending, cycles,
                   run_vars>>

NextOpt == Objective \/ WriteParams \/ LoadParams

SpecOpt == InitOpt /\ [][NextOpt]_vars

\* C11: the strategy configuration and the trailing-stop multiplier and
\* period the trader builds from the written document equal those of the
\* optimizer's final backtest of the best vector.
C11_RoundTrip ==
    op.name = "load" => /\ op.cfg = op.backtest_cfg
                        /\ op.ts = op.backtest_ts

\* C11: a document was loaded whose every strategy and trailing-stop
\* parameter differs from the constructors' defaults.
C11_Witness ==
    /\ op.name = "load"
    /\ \A f \in DOMAIN op.cfg : op.cfg[f] # IFRStrategy(EmptyDict)[f]
    /\ \A f \in DOMAIN op.ts : op.ts[f] # TraderTrailingStop(EmptyDict)[f]

C13_Penalty ==
    op.name = "objective" =>
        /\ op.trade_count < 5 => op.value = 10
        /\ op.trade_count >= 5 => op.value = -op.total_return

\* C13: the objective was evaluated on a backtest of 4 trades whose total
\* return, negated, is below the penalty.
C13_Witness ==
    /\ op.name = "objective"
    /\ op.trade_count = 4
    /\ op.total_return = 12
    /\ op.value = 10

-----------------------------------------------------------------------------
(* PositionManager.calculate_position_size on its own                      *)

\* Balances and entry prices (USDT) the sizer is called with.
SizerBalances ==
    {[available_balance |-> a, wallet_balance |-> w] :
        a \in {0, 1, 100, 200}, w \in {-10, 0, 100, 200}}

SizerPrices == {-1, 0, 1, 3, 10000, 15000, 20000}

InitSize ==
    /\ klines = <<>>
    /\ state = NoState
    /\ current_side = "None"
    /\ venue = NoPosition
    /\ pending = <<>>
    /\ cycles = 0
    /\ RunIdle
    /\ op = [name |-> "init"]

SizerCall ==
    \E balance \in SizerBalances, entry_price \in SizerPrices,
       leverage \in {1, 2} :
        /\ op' = [name |-> "calculate_position_size", balance |-> balance,
                  entry_price |-> entry_price, leverage |-> leverage,
                  ret |-> calculate_position_size(balance, entry_price,
                                                  leverage)]
        /\ UNCHANGED <<klines, state, current_side, venue, pending, cycles,
                       run_vars>>

NextSize == SizerCall

SpecSize == InitSize /\ [][NextSize]_vars

\* C39: a nonzero quantity returned by calculate_position_size never exceeds
\* capital_to_invest * leverage / entry_price.
C39_NeverAboveCapital ==
    (op.name = "calculate_position_size" /\ op.ret > 0) =>
        LET c == LeveragedCapital(op.balance, op.leverage)
        IN  op.ret * c[2] * op.entry_price <= c[1] * 1000

\* The call op records computed a quantity below the minimum order size:
\* capital_to_invest * leverage / entry_price < MIN_ORDER_SIZE.
BelowMinimum ==
    LET c == LeveragedCapital(op.balance, op.leverage)
    IN  /\ op.entry_price > 0
        /\ c[1] * 1000 < MIN_ORDER_SIZE * c[2] * op.entry_price

\* C14: calculate_position_size returns 0 when entry_price <= 0 and when
\* capital_to_invest * leverage / entry_price is below the minimum order
\* size; every nonzero result is at least the minimum order size.
C14_ZeroOrAtLeastMinimum ==
    op.name = "calculate_position_size" =>
        /\ op.entry_price <= 0 => op.ret = 0
        /\ BelowMinimum => op.ret = 0
        /\ op.ret # 0 => op.ret >= MIN_ORDER_SIZE

\* C14: a quantity that would round to one step (0.00067) was below the
\* minimum and gave 0.
C14_Witness ==
    /\ op.name = "calculate_position_size"
    /\ BelowMinimum
    /\ 2 * LeveragedCapital(op.balance, op.leverage)[1] * 1000 >
           LeveragedCapital(op.balance, op.leverage)[2] * op.entry_price
    /\ op.ret = 0

-----------------------------------------------------------------------------
(* IFRStrategy.calculate_signal                                            *)
(*                                                                         *)
(* Levels and multipliers are in tenths, as in IFRStrategy(params).  The   *)
(* oscillator and the confidence are exact fractions [num, den]; the       *)
(* confidence 1.0 is any fraction with num = den.  ATR values are whole    *)
(* fractions Frac(v, 1).  NaN is the float nan, 0/0: every comparison      *)
(* with it is false.  An attribute that is None is <<>>, one that holds v  *)
(* is <<v>>.                                                               *)

Frac(n, d) == [num |-> n, den |-> d]
NaN == Frac(0, 0)

RECURSIVE Pow(_, _)
Pow(b, e) == IF e = 0 THEN 1 ELSE b * Pow(b, e - 1)

\* The smoothed sum of the gains (sign = 1) or of the losses (sign = -1)
\* over the first j differences of closes: rma is an exponentially weighted
\* mean with alpha = 1/period, so the difference at lag i weighs
\* (1 - 1/period)^i; all weights are scaled by period^(m - 1), m the number
\* of differences, which the ratio of two such sums does not see.
RECURSIVE SmoothedSum(_, _, _, _)
SmoothedSum(closes, period, sign, j) ==
    IF j = 0 THEN 0
    ELSE LET m == Len(closes) - 1
             d == sign * (closes[j + 1] - closes[j])
         IN  SmoothedSum(closes, period, sign, j - 1)
             + Pow(period - 1, m - j) * Pow(period, j - 1) * Max(d, 0)

\* _compute_rsi: the series df.ta.rsi returns, as <<>> when empty and else
\* <<its last value>>: 100 * gains / (gains + losses) of the smoothed sums,
\* NaN before `period` differences exist or when both sums are 0.
_compute_rsi(closes, period) ==
    IF closes = <<>> THEN <<>>
    ELSE LET m == Len(closes) - 1
             gains == SmoothedSum(closes, period, 1, m)
             losses == SmoothedSum(closes, period, -1, m)
         IN  IF m < period \/ gains + losses = 0 THEN <<NaN>>
             ELSE <<Frac(100 * gains, gains + losses)>>

\* current_rsi <= level and current_rsi >= level, level in tenths.
RsiLe(rsi, level) == rsi # NaN /\ 10 * rsi.num <= level * rsi.den
RsiGe(rsi, level) == rsi # NaN /\ 10 * rsi.num >= level * rsi.den

\* Mutation of Confidence: the quotient is not capped at 1.0.
Confidence_Uncapped(num, den) == Frac(num, 20 * den)

\* min(1.0, diff / 20.0) for diff = num / den >= 0 (den > 0).
Confidence(num, den) == IF num >= 20 * den THEN Frac(1, 1)
                        ELSE Frac(num, 20 * den)

\* The ATR filter of calculate_signal: whether it applies to atr_series
\* under configuration c, and whether the last ATR is then an outlier of
\* the mean of the last atr_lookback_period values (the mean skips NaN).
FilterApplies(c, atr_series) ==
    /\ atr_series # <<>>
    /\ Len(atr_series) >= c.atr_lookback_period
    /\ c.atr_min_multiplier > 0
    /\ c.atr_max_multiplier < 9990

RECURSIVE SumSeq(_)
SumSeq(q) == IF q = <<>> THEN 0 ELSE Head(q).num + SumSeq(Tail(q))

\* Mutation of IsOutlier: only the lower limit is tested.
IsOutlier_LowOnly(c, atr_series) ==
    LET recent == SelectSeq(LastN(atr_series, c.atr_lookback_period),
                            LAMBDA v : v # NaN)
        current_atr == atr_series[Len(atr_series)]
    IN  /\ current_atr # NaN
        /\ recent # <<>>
        /\ current_atr.num * Len(recent) * 10
               < SumSeq(recent) * c.atr_min_multiplier

IsOutlier(c, atr_series) ==
    LET recent == SelectSeq(LastN(atr_series, c.atr_lookback_period),
                            LAMBDA v : v # NaN)
        current_atr == atr_series[Len(atr_series)]
    IN  /\ current_atr # NaN
        /\ recent # <<>>
        /\ \/ current_atr.num * Len(recent) * 10
                  < SumSeq(recent) * c.atr_min_multiplier
           \/ current_atr.num * Len(recent) * 10
                  > SumSeq(recent) * c.atr_max_multiplier

\* Mutation of IsLong: the oversold level itself is not oversold.
IsLong_Strict(c, current_rsi) ==
    /\ current_rsi # NaN
    /\ 10 * current_rsi.num < c.oversold_level * current_rsi.den

\* calculate_signal: "if current_rsi <= self.cfg.oversold_level".
IsLong(c, current_rsi) == RsiLe(current_rsi, c.oversold_level)

\* Mutation of InsufficientHistory: rsi_period + 1 candles are enough.
InsufficientHistory_OneLess(c, ks) == Len(ks) < c.rsi_period + 1

\* calculate_signal: "if len(self.klines) < self.cfg.rsi_period + 2".
InsufficientHistory(c, ks) == Len(ks) < c.rsi_period + 2

\* IFRStrategy.calculate_signal on the buffer ks under configuration c,
\* with atr_series what _compute_atr returns and prev the attributes
\* last_rsi and last_atr before the call: the StrategyResult, and last_rsi
\* and last_atr after the call.
StrategyResult(c, ks, atr_series, prev) ==
    LET last_price == IF ks # <<>> THEN ks[Len(ks)].close ELSE 0
        closes == [i \in 1..Len(ks) |-> ks[i].close]
        rsi == _compute_rsi(closes, c.rsi_period)
        current_rsi == rsi[1]
        last_atr == IF atr_series # <<>>
                    THEN <<atr_series[Len(atr_series)]>> ELSE <<>>
        Result(signal, confidence, lr, la) ==
            [signal |-> signal, confidence |-> confidence,
             entry_price |-> last_price, last_rsi |-> lr, last_atr |-> la]
    IN  IF InsufficientHistory(c, ks)
        THEN Result("NEUTRAL", Frac(0, 1), prev.last_rsi, prev.last_atr)
        ELSE IF rsi = <<>>
        THEN Result("NEUTRAL", Frac(0, 1), prev.last_rsi, prev.last_atr)
        ELSE IF FilterApplies(c, atr_series) /\ IsOutlier(c, atr_series)
        THEN Result("NEUTRAL", Frac(0, 1), <<current_rsi>>, last_atr)
        ELSE IF IsLong(c, current_rsi)
        THEN Result("LONG",
                    Confidence(c.oversold_level * current_rsi.den
                                   - 10 * current_rsi.num,
                               10 * current_rsi.den),
                    <<current_rsi>>, last_atr)
        ELSE IF RsiGe(current_rsi, c.overbought_level)
        THEN Result("SHORT",
                    Confidence(10 * current_rsi.num
                                   - c.overbought_level * current_rsi.den,
                               10 * current_rsi.den),
                    <<current_rsi>>, last_atr)
        ELSE Result("NEUTRAL", Frac(0, 1), <<current_rsi>>, last_atr)

\* The configurations studied: the default levels (oversold 30.0,
\* overbought 70.0) with periods of 2, the ATR filter disabled by both
\* sentinels (the constructor's defaults), by either one, or enabled with
\* the band [0.5, 1.2] x mean over 2 values or over 10.
SignalConfig(lookback, min_multiplier, max_multiplier) ==
    [rsi_period |-> 2, oversold_level |-> 300, overbought_level |-> 700,
     volatility_period |-> 14, atr_period |-> 2,
     atr_lookback_period |-> lookback,
     atr_min_multiplier |-> min_multiplier,
     atr_max_multiplier |-> max_multiplier]

SignalConfigs ==
    {SignalConfig(2, 0, 9990), SignalConfig(2, 5, 9990),
     SignalConfig(2, 0, 12), SignalConfig(2, 5, 12), SignalConfig(10, 5, 12)}

\* The buffers studied: up to MaxCandles candles with closes among four.
SignalCloses == {100, 102, 106, 112}

SignalKlines ==
    UNION {{[i \in 1..n |-> Kline(i, f[i], f[i], f[i])] :
                f \in [1..n -> SignalCloses]} : n \in 0..MaxCandles}

\* What _compute_atr may return on ks: the empty series when fewer than
\* atr_period + 1 candles exist or the library fails, else one value per
\* candle, NaN for the first atr_period candles.
AtrSeries(c, ks) ==
    {<<>>} \cup
    IF Len(ks) < c.atr_period + 1 THEN {}
    ELSE {[i \in 1..Len(ks) |-> IF i <= c.atr_period THEN NaN ELSE f[i]] :
            f \in [(c.atr_period + 1)..Len(ks) -> {Frac(1, 1), Frac(5, 1)}]}

\* A fresh strategy holding a buffer; op holds the configuration and what
\* _compute_atr will return.
InitSig ==
    /\ klines \in SignalKlines
    /\ state = NoState
    /\ current_side = "None"
    /\ venue = NoPosition
    /\ pending = <<>>
    /\ cycles = 0
    /\ RunIdle
    /\ \E c \in SignalConfigs :
         \E a \in AtrSeries(c, klines) :
            op = [name |-> "init", c |-> c, atr_series |-> a]

\* strategy.calculate_signal()
CalculateSignal ==
    /\ op.name = "init"
    /\ op' = [name |-> "calculate_signal", c |-> op.c,
              atr_series |-> op.atr_series,
              res |-> StrategyResult(op.c, klines, op.atr_series,
                                     [last_rsi |-> <<>>, last_atr |-> <<>>])]
    /\ UNCHANGED <<klines, state, current_side, venue, pending, cycles,
                   run_vars>>

NextSig == CalculateSignal

SpecSig == InitSig /\ [][NextSig]_vars

\* calculate_signal has returned from a buffer of rsi_period + 2 candles
\* or more, so that the oscillator was computed and recorded.
SignalComputed ==
    /\ op.name = "calculate_signal"
    /\ Len(klines) >= op.c.rsi_period + 2

\* The oscillator the call recorded.
Oscillator == op.res.last_rsi[1]

\* The ATR values the filter looks at: the last atr_lookback_period of the
\* series, without NaN.
RecentAtr ==
    SelectSeq(LastN(op.atr_series, op.c.atr_lookback_period),
              LAMBDA v : v # NaN)

\* The volatility gate blocks: the ATR series is as long as the lookback,
\* both multipliers are enabled, and the current ATR is below
\* mean * atr_min_multiplier or above mean * atr_max_multiplier.
GateBlocks ==
    /\ op.atr_series # <<>>
    /\ Len(op.atr_series) >= op.c.atr_lookback_period
    /\ op.c.atr_min_multiplier > 0 /\ op.c.atr_max_multiplier < 9990
    /\ RecentAtr # <<>>
    /\ op.atr_series[Len(op.atr_series)] # NaN
    /\ LET current == op.atr_series[Len(op.atr_series)].num * 10 * Len(RecentAtr)
       IN  \/ current < SumSeq(RecentAtr) * op.c.atr_min_multiplier
           \/ current > SumSeq(RecentAtr) * op.c.atr_max_multiplier

FracEq(a, b) == a.num * b.den = b.num * a.den

\* min(1, (a - b) / 20) for the level a (tenths) and the oscillator b.
LevelConfidence(a, b, sign) ==
    LET diff == sign * (a * b.den - 10 * b.num)
    IN  IF diff >= 200 * b.den THEN Frac(1, 1) ELSE Frac(diff, 200 * b.den)

\* C15: when the gate is not blocking, the signal is LONG iff the
\* oscillator <= oversold_level, with confidence
\* min(1, (oversold_level - oscillator) / 20); SHORT iff it is not LONG and
\* the oscillator >= overbought_level, with confidence
\* min(1, (oscillator - overbought_level) / 20); else NEUTRAL with
\* confidence 0; the confidence is within [0, 1].
C15_SignalRule ==
    (SignalComputed /\ ~GateBlocks) =>
        LET long == RsiLe(Oscillator, op.c.oversold_level)
            short == ~long /\ RsiGe(Oscillator, op.c.overbought_level)
            conf == op.res.confidence
        IN  /\ op.res.signal = "LONG" <=> long
            /\ op.res.signal = "SHORT" <=> short
            /\ op.res.signal = "NEUTRAL" <=> (~long /\ ~short)
            /\ long => FracEq(conf, LevelConfidence(op.c.oversold_level,
                                                    Oscillator, 1))
            /\ short => FracEq(conf, LevelConfidence(op.c.overbought_level,
                                                     Oscillator, -1))
            /\ (~long /\ ~short) => conf.num = 0
            /\ conf.den > 0 /\ 0 <= conf.num /\ conf.num <= conf.den

\* C15: a LONG was returned with a confidence strictly between 0 and 1.
C15_Witness ==
    /\ SignalComputed /\ ~GateBlocks
    /\ op.res.signal = "LONG"
    /\ 0 < op.res.confidence.num
    /\ op.res.confidence.num < op.res.confidence.den

\* The closes end in a run of declines: the last two differences are
\* negative.
DecliningRun ==
    /\ Len(klines) >= 3
    /\ \A i \in (Len(klines) - 1)..Len(klines) :
           klines[i].close < klines[i - 1].close

\* The configuration's levels and filter are the defaults: oversold 30.0,
\* overbought 70.0, both multipliers at their sentinels.
DefaultConfig ==
    /\ op.c.oversold_level = 300 /\ op.c.overbought_level = 700
    /\ op.c.atr_min_multiplier = 0 /\ op.c.atr_max_multiplier = 9990

\* C16 as stated: under the default configuration, when a run of declining
\* closes has brought the oscillator to or below oversold_level, the signal
\* is LONG with a confidence strictly above 0 and at most 1.
C16_DeclineConfidencePositive ==
    (/\ SignalComputed /\ DefaultConfig /\ DecliningRun
     /\ RsiLe(Oscillator, op.c.oversold_level))
    => /\ op.res.signal = "LONG"
       /\ 0 < op.res.confidence.num
       /\ op.res.confidence.num <= op.res.confidence.den

\* C16 amended: under the default configuration, when a run of declining
\* closes has brought the oscillator to or below oversold_level, the signal
\* is LONG with a confidence of at least 0 and at most 1, strictly above 0
\* when the oscillator is strictly below oversold_level.
C16_DeclineLong ==
    (/\ SignalComputed /\ DefaultConfig /\ DecliningRun
     /\ RsiLe(Oscillator, op.c.oversold_level))
    => /\ op.res.signal = "LONG"
       /\ op.res.confidence.den > 0
       /\ 0 <= op.res.confidence.num
       /\ op.res.confidence.num <= op.res.confidence.den
       /\ ~RsiGe(Oscillator, op.c.oversold_level)
              => 0 < op.res.confidence.num

\* C16: after a rise and two declines the oscillator is exactly 30 and the
\* signal is LONG.
C16_Witness ==
    /\ SignalComputed /\ DefaultConfig /\ DecliningRun
    /\ RsiLe(Oscillator, op.c.oversold_level)
    /\ RsiGe(Oscillator, op.c.oversold_level)
    /\ op.res.signal = "LONG"

\* C17: with fewer than rsi_period + 2 candles calculate_signal returns
\* NEUTRAL with confidence 0 and the last close as entry price, 0 when the
\* buffer is empty.
C17_InsufficientHistory ==
    (op.name = "calculate_signal" /\ Len(klines) < op.c.rsi_period + 2)
    => /\ op.res.signal = "NEUTRAL"
       /\ op.res.confidence.num = 0
       /\ op.res.entry_price = IF klines = <<>> THEN 0
                               ELSE klines[Len(klines)].close

\* C17: the call was made on rsi_period + 1 candles whose closes only
\* fall, and returned NEUTRAL at the last close.
C17_Witness ==
    /\ op.name = "calculate_signal"
    /\ Len(klines) = op.c.rsi_period + 1
    /\ DecliningRun
    /\ op.res.signal = "NEUTRAL"
    /\ op.res.entry_price = klines[Len(klines)].close

\* C18: when the series holds at least atr_lookback_period ATR values and
\* both multipliers are enabled, a current ATR outside
\* [mean * atr_min_multiplier, mean * atr_max_multiplier] gives NEUTRAL
\* with confidence 0 whatever the oscillator, with the oscillator and the
\* ATR recorded; when either multiplier is at its sentinel (0.0, 999.0) the
\* signal is the one the oscillator rule gives.
C18_VolatilityGate ==
    SignalComputed =>
        /\ (Len(RecentAtr) >= op.c.atr_lookback_period /\ GateBlocks)
           => /\ op.res.signal = "NEUTRAL"
              /\ op.res.confidence.num = 0
              /\ op.res.last_rsi
                     = _compute_rsi([i \in 1..Len(klines) |-> klines[i].close],
                                    op.c.rsi_period)
              /\ op.res.last_atr = <<op.atr_series[Len(op.atr_series)]>>
        /\ (op.c.atr_min_multiplier = 0 \/ op.c.atr_max_multiplier = 9990)
           => /\ RsiLe(Oscillator, op.c.oversold_level)
                    => op.res.signal = "LONG"
              /\ (/\ ~RsiLe(Oscillator, op.c.oversold_level)
                  /\ RsiGe(Oscillator, op.c.overbought_level))
                    => op.res.signal = "SHORT"

\* C18: the gate blocked a call whose oscillator is at or below
\* oversold_level because the current ATR is above the band.
C18_Witness ==
    /\ SignalComputed
    /\ Len(RecentAtr) >= op.c.atr_lookback_period /\ GateBlocks
    /\ op.atr_series[Len(op.atr_series)].num * 10 * Len(RecentAtr)
           > SumSeq(RecentAtr) * op.c.atr_max_multiplier
    /\ RsiLe(Oscillator, op.c.oversold_level)
    /\ op.res.signal = "NEUTRAL"

-----------------------------------------------------------------------------
(* run_trader from the subscription on: the stream's thread runs           *)
(* ws_callback for each candle, SIGINT runs handle_sigint, and the main     *)
(* thread polls the stop flag.                                             *)

\* The candles and signals the callbacks of this specification see: a
\* revision of the last candle or the next candle, closing at 94 or 100.
RunKlines ==
    {k \in LiveKlines :
        k.close \in {94, 100} /\ k.open_time >= klines[Len(klines)].open_time}
RunSignals == {"LONG", "NEUTRAL"}

\* run_trader after client.setup_websocket and signal.signal: the state of
\* Init with the stream connected and the main thread in its loop.
InitRun ==
    /\ klines = [i \in 1..get_max_klines |-> Close100(i)]
    /\ state = NoState
    /\ current_side = "None"
    /\ venue = NoPosition
    /\ pending = <<>>
    /\ cycles = 0
    /\ params_file = NoFile
    /\ stop_event = FALSE
    /\ ws = "connected"
    /\ pc = "loop"
    /\ callback = <<>>
    /\ backtest = NoBacktest
    /\ op = [name |-> "init"]

\* Mutation of StopRequested: the callback does not look at the flag.
StopRequested_Never == FALSE

\* ws_callback: "if _stop_event.is_set(): return".
StopRequested == stop_event

\* The stream delivers a candle and ws_callback starts: it returns at once
\* when the stop flag is set, and else calls _handle_new_kline.
CallbackStart ==
    \E k \in RunKlines, decided \in RunSignals :
        /\ ws = "connected"
        /\ callback = <<>>
        /\ cycles < MaxCycles
        /\ IF StopRequested
           THEN /\ op' = [name |-> "returned"]
                /\ UNCHANGED callback
           ELSE /\ op' = [name |-> "started"]
                /\ callback' = <<[kline |-> k, decided |-> decided]>>
        /\ UNCHANGED <<klines, state, current_side, venue, pending, cycles,
                       params_file, stop_event, ws, pc, backtest>>

\* Whether the exception that ended a cycle may have been the venue's
\* answer to bad credentials ("401", "Unauthorized"): any of the remote
\* calls that raise can fail that way, and a cycle that raised nothing did
\* not.
AuthErrors(path) ==
    IF path \in {"fetch_failed", "balance_failed", "rejected"}
    THEN BOOLEAN ELSE {FALSE}

\* _handle_new_kline, called by ws_callback, runs to its end (an exception
\* it raises is logged by ws_callback).  op records whether the cycle ended
\* on an authentication error.
CallbackEnd ==
    /\ callback # <<>>
    /\ LET k == callback[1].kline
           ks == add_kline(klines, k)
           signal == calculate_signal(ks, callback[1].decided)
       IN  \E out \in Cycle(k.close, ks, signal) :
               /\ klines' = ks
               /\ state' = out.state
               /\ current_side' = out.side
               /\ pending' = pending \o Accepted(out.orders)
               /\ cycles' = cycles + 1
               /\ \E auth \in AuthErrors(out.path) :
                      op' = [name |-> "cycle", auth_error |-> auth]
    /\ callback' = <<>>
    /\ UNCHANGED <<venue, params_file, stop_event, ws, pc, backtest>>

\* handle_sigint
Sigint ==
    /\ ~stop_event
    /\ stop_event' = TRUE
    /\ UNCHANGED <<klines, state, current_side, venue, pending, cycles, op,
                   params_file, ws, pc, callback, backtest>>

\* run_trader: "while not _stop_event.is_set(): time.sleep(1)" ends.
MainLoopExit ==
    /\ pc = "loop"
    /\ stop_event
    /\ pc' = "finally"
    /\ UNCHANGED <<klines, state, current_side, venue, pending, cycles, op,
                   params_file, stop_event, ws, callback, backtest>>

\* run_trader: "finally: client.disconnect_websocket()", then it returns.
Disconnect ==
    /\ pc = "finally"
    /\ ws' = "closed"
    /\ pc' = "done"
    /\ UNCHANGED <<klines, state, current_side, venue, pending, cycles, op,
                   params_file, stop_event, callback, backtest>>

NextRun ==
    \/ CallbackStart \/ CallbackEnd \/ Sigint \/ MainLoopExit \/ Disconnect
    \/ VenueExecute \/ VenueClose

\* The main thread and the stream's thread keep running.
SpecRun ==
    /\ InitRun /\ [][NextRun]_vars
    /\ WF_vars(MainLoopExit) /\ WF_vars(Disconnect) /\ WF_vars(CallbackEnd)

\* C19: once the stop flag is set, no callback that starts afterwards
\* begins a cycle, changes the buffer, the controller or the local side, or
\* submits an order; a cycle in flight ends only by running to its end, and
\* does; and the main thread eventually disconnects the stream and returns.
C19_Cancellation ==
    /\ [][(stop_event /\ callback = <<>>)
          => /\ callback' = <<>>
             /\ klines' = klines /\ state' = state
             /\ current_side' = current_side
             /\ Len(pending') <= Len(pending)]_vars
    /\ [][(callback # <<>> /\ callback' = <<>>) => cycles' = cycles + 1]_vars
    /\ (callback # <<>>) ~> (callback = <<>>)
    /\ stop_event ~> (pc = "done" /\ ws = "closed")

\* C19: a callback arrived after the stop flag was set and returned at
\* once; the main thread has since disconnected and returned.
C19_Witness ==
    /\ stop_event
    /\ op.name = "returned"
    /\ cycles > 0
    /\ pc = "done" /\ ws = "closed"

\* C27: an authentication error is fatal.  After a cycle that ended on an
\* authentication error no later callback starts a cycle, and run_trader
\* eventually disconnects and returns.
C27_AuthFatal ==
    /\ [][(op.name = "cycle" /\ op.auth_error) => callback' = <<>>]_vars
    /\ (op.name = "cycle" /\ op.auth_error) ~> (pc = "done")

-----------------------------------------------------------------------------
(* The breach path of the decision cycle (specification Spec)              *)

\* C20: a cycle that fetched an open position and whose trailing-stop
\* update reported a breach requests exactly one order, reduce-only, on the
\* side opposite to the position and for its full size, ends with the
\* controller inactive, and submits no entry order, whatever the signal.
C20_BreachCloses ==
    [][(FetchedCycle /\ venue.size > 0 /\ op'.path = "breach")
       => /\ Len(op'.orders) = 1
          /\ op'.orders[1].reduce_only
          /\ op'.orders[1].side = (IF venue.side = "Long" THEN "Sell"
                                   ELSE "Buy")
          /\ op'.orders[1].qty = venue.size
          /\ ~state'.is_active
          /\ EntryOrders(op'.orders) = <<>>]_vars

-----------------------------------------------------------------------------
(* The entry branch of the decision cycle (specification Spec)             *)

\* A cycle step that reached the entry branch and got a balance: its fetch
\* succeeded, its signal is LONG or SHORT, the fetched position is not open
\* on the signalled side, the trailing stop reported no breach and
\* get_balance returned.
EntryCycle ==
    /\ FetchedCycle
    /\ op'.signal \in {"LONG", "SHORT"}
    /\ ~(venue.size > 0 /\ venue.side = SignalSide(op'.signal))
    /\ op'.path \notin {"breach", "balance_failed"}

\* After a cycle step, the controller is the one the trailing-stop step of
\* the cycle left: untouched without a fetched position, and else still on
\* the side and entry price of the position it tracks.
NotActivatedByEntry ==
    IF venue.size = 0 THEN state' = state
    ELSE /\ state'.position_side =
               (IF state = NoState
                THEN (IF venue.side = "Long" THEN "LONG" ELSE "SHORT")
                ELSE state.position_side)
         /\ state'.entry_price =
               (IF state = NoState THEN Px(venue.entry_price)
                ELSE state.entry_price)

\* C22: entry sequencing.  A cycle that reaches the entry branch and gets a
\* balance either submits no order (the size was 0), and then the entry
\* branch has not activated the controller and the local side is the
\* reconciled one; or submits exactly one order, not reduce-only, on the
\* signalled side, and then the controller is activated on that side at the
\* candle's close and the local side set to it exactly when the venue
\* accepted the order.
C22_EntrySequencing ==
    [][EntryCycle =>
        IF op'.orders = <<>>
        THEN /\ op'.path = "no_size"
             /\ NotActivatedByEntry
             /\ current_side' = op'.synced_side
        ELSE /\ Len(op'.orders) = 1
             /\ ~op'.orders[1].reduce_only
             /\ op'.orders[1].side = (IF op'.signal = "LONG" THEN "Buy"
                                      ELSE "Sell")
             /\ IF op'.orders[1].accepted
                THEN /\ state'.is_active
                     /\ state'.position_side = op'.signal
                     /\ state'.entry_price = Px(pending'[Len(pending')].price)
                     /\ current_side' = SignalSide(op'.signal)
                ELSE /\ NotActivatedByEntry
                     /\ current_side' = op'.synced_side]_vars

\* C22 witness: a SHORT signal on an open Long position was sized, its Sell
\* order accepted, the controller activated for a Short and the local side
\* set to Short.
C22_Witness ==
    /\ op.name = "cycle" /\ op.signal = "SHORT" /\ op.path = "entered"
    /\ op.synced_side = "Long"
    /\ Len(op.orders) = 1 /\ op.orders[1].side = "Sell"
    /\ state.is_active /\ state.position_side = "SHORT"
    /\ current_side = "Short"

\* A cycle step whose entry order the venue rejected.
RejectedEntry ==
    /\ FetchedCycle
    /\ EntryOrders(op'.orders) # <<>>
    /\ ~op'.orders[1].accepted

\* C23: order rejection.  A cycle whose entry order the venue rejected ends
\* there: the entry branch has not activated the controller, the local side
\* is the reconciled one and not the signalled side, and the venue holds no
\* new order; and after such a cycle the next candle starts a cycle like
\* after any other.
C23_OrderRejection ==
    /\ [][RejectedEntry
          => /\ NotActivatedByEntry
             /\ current_side' = op'.synced_side
             /\ current_side' # SignalSide(op'.signal)
             /\ pending' = pending]_vars
    /\ []((op.name = "cycle" /\ op.path = "rejected" /\ cycles < MaxCycles)
          => ENABLED HandleNewKline)

\* C23 witness: the first cycle's Buy order was rejected with nothing
\* tracked, nothing was activated, and a further cycle may follow.
C23_Witness ==
    /\ op.name = "cycle" /\ op.signal = "LONG" /\ op.path = "rejected"
    /\ Len(op.orders) = 1 /\ ~op.orders[1].accepted
    /\ state = NoState /\ current_side = "None" /\ pending = <<>>
    /\ cycles < MaxCycles

-----------------------------------------------------------------------------
(* The close-signal branch of the decision cycle (specification Spec)      *)

\* The position side a close signal is about.
ClosedSide(signal) == IF signal = "CLOSE_LONG" THEN "Long" ELSE "Short"

\* C24: close signals act only on a matching position.  In a cycle without
\* a breach whose signal is CLOSE_LONG or CLOSE_SHORT, an order is sent only
\* when the fetched position is open on the side the signal names; a close
\* that succeeded leaves the controller inactive and the local side None;
\* and a signal that does not match the open position sends no order and
\* leaves the local side as reconciled.
C24_CloseMatching ==
    [][(/\ FetchedCycle
        /\ op'.signal \in {"CLOSE_LONG", "CLOSE_SHORT"}
        /\ op'.path # "breach")
       => LET matching == venue.size > 0
                          /\ venue.side = ClosedSide(op'.signal)
          IN  /\ (op'.orders # <<>> => matching)
              /\ (op'.path = "closed"
                    => ~state'.is_active /\ current_side' = "None")
              /\ (~matching => /\ op'.orders = <<>>
                               /\ current_side' = op'.synced_side)]_vars

\* C25: in a cycle that acts on a close signal, when the position fetch
\* inside close_position fails with an error that is not a timeout, the
\* close reports failure: the controller is not deactivated and the local
\* side is not cleared.  (A timeout there counts as already closed.)
C25_OnlyTimeoutIsClosed ==
    [][(/\ FetchedCycle
        /\ op'.signal \in {"CLOSE_LONG", "CLOSE_SHORT"}
        /\ op'.path # "breach"
        /\ op'.close_fetch = "error")
       => /\ op'.path = "close_failed"
          /\ state'.is_active
          /\ current_side' = op'.synced_side]_vars

-----------------------------------------------------------------------------
(* Failures of the position fetch (specification Spec)                     *)

\* C26: a cycle whose position fetch fails is abandoned: the controller and
\* the local side are exactly as before it, it sends no order and no stop
\* configuration, and the next candle starts a cycle as usual.
C26_FetchFailureAbandons ==
    /\ [][(cycles' = cycles + 1 /\ op'.path = "fetch_failed")
          => /\ state' = state
             /\ current_side' = current_side
             /\ op'.orders = <<>>
             /\ pending' = pending
             /\ ~op'.stop_sent]_vars
    /\ []((op.name = "cycle" /\ op.path = "fetch_failed" /\ cycles < MaxCycles)
          => ENABLED HandleNewKline)

\* C26 witness: with a Long tracked and its controller active, and the
\* venue no longer holding the position, a cycle's fetch failed and both
\* stayed.
C26_Witness ==
    /\ op.name = "cycle" /\ op.path = "fetch_failed"
    /\ op.prev_side = "Long" /\ current_side = "Long"
    /\ state.is_active
    /\ venue.size = 0

-----------------------------------------------------------------------------
(* Startup of main.py --trade (run_trader up to the subscription) and of   *)
(* main.py --optimize (run_optimization up to the search), after           *)
(* Settings.validate found the credentials.                                *)
(*                                                                         *)
(* The parameter file is described by what the loading code looks at:      *)
(*   json           the text parses as a JSON object                       *)
(*   strategy_name  the name under "strategy_name", or "absent"            *)
(*   strategy       the value under "strategy": "ok" (a dict of numbers),  *)
(*                  "absent", "not_dict", or "bad_value" (a dict with a    *)
(*                  value int() or float() rejects)                        *)
(*   trailing       the value under "trailing_stop": "ok", "absent",       *)
(*                  "not_dict", "bad_period" (atr_period rejected by       *)
(*                  int()) or "bad_multiplier" (atr_multiplier not a       *)
(*                  number)                                                *)

StartDocuments ==
    {[json |-> FALSE, strategy_name |-> "absent", strategy |-> "absent",
      trailing |-> "absent"]}
    \cup [json : {TRUE},
          strategy_name : {"absent", "IFRStrategy", "MACDStrategy"},
          strategy : {"ok", "absent", "not_dict", "bad_value"},
          trailing : {"ok", "absent", "not_dict", "bad_period",
                      "bad_multiplier"}]

\* The values of --strategy: not given, or a name.
StrategyArgs == {"None", "ifr", "IFRStrategy", "macd"}

\* _load_optimized_params: the exception it raises, or "ok".
_load_optimized_params(file) ==
    IF file = NoFile THEN "FileNotFoundError"
    ELSE IF ~file.json THEN "JSONDecodeError"
    ELSE "ok"

\* Mutation of _load_strategy_from_params: a name outside the mapping falls
\* back to IFRStrategy.
_load_strategy_from_params_AnyName(opt_params) ==
    IF opt_params.strategy = "not_dict" THEN "AttributeError"
    ELSE IF opt_params.strategy = "bad_value" THEN "ValueError"
    ELSE "ok"

\* _load_strategy_from_params: the exception it raises, or "ok".  The name
\* defaults to IFRStrategy, the mapping holds IFRStrategy alone, and
\* IFRStrategy.__init__ calls params.get and int() / float() on each value.
_load_strategy_from_params(opt_params) ==
    LET strategy_name == IF opt_params.strategy_name = "absent"
                         THEN "IFRStrategy" ELSE opt_params.strategy_name
    IN  IF strategy_name \notin {"IFRStrategy"} THEN "ValueError"
        ELSE IF opt_params.strategy = "not_dict" THEN "AttributeError"
        ELSE IF opt_params.strategy = "bad_value" THEN "ValueError"
        ELSE "ok"

\* run_trader, construction of the TrailingStop: trailing_params.get, and
\* int() on atr_period; atr_multiplier is passed on as read.
LoadedTrailingStop(opt_params) ==
    IF opt_params.trailing = "not_dict" THEN "AttributeError"
    ELSE IF opt_params.trailing = "bad_period" THEN "ValueError"
    ELSE "ok"

\* run_optimization: _load_strategy_class(strategy_name or "ifr").
_load_strategy_class(strategy_name) ==
    LET name == IF strategy_name = "None" THEN "ifr" ELSE strategy_name
    IN  IF name \notin {"ifr", "IFRStrategy"} THEN "ValueError" ELSE "ok"

\* op, for this specification:
\*   mode          "trade" or "optimize"
\*   strategy      the value of --strategy
\*   client_built  a BybitClient has been constructed
\*   requests      remote requests issued so far
\*   error         the exception that ended the run, "none" while it runs
\* pc is the step the run is at; "failed" after an exception, "loop" in
\* run_trader's main loop, "search" in gp_minimize, "done" after a return.
InitStart ==
    /\ klines = <<>>
    /\ state = NoState
    /\ current_side = "None"
    /\ venue \in {NoPosition} \cup
                 {[side |-> s, size |-> 1, entry_price |-> 100] :
                      s \in {"Long", "Short"}}
    /\ pending = <<>>
    /\ cycles = 0
    /\ params_file \in {NoFile} \cup StartDocuments
    /\ stop_event = FALSE
    /\ ws = "none"
    /\ pc = "start"
    /\ callback = <<>>
    /\ backtest = NoBacktest
    /\ \E mode \in {"trade", "optimize"}, arg \in StrategyArgs :
           /\ (mode = "trade" => arg = "None")
           /\ op = [name |-> "init", mode |-> mode, strategy |-> arg,
                    client_built |-> FALSE, requests |-> 0, error |-> "none"]

\* A step of the startup: to pc value `to`, or to "failed" with `error`
\* when it is not "ok"; `built` and `sent` say whether the step constructs
\* a client and how many requests it issues.
StartStep(name, to, error, built, sent) ==
    /\ pc' = IF error = "ok" THEN to ELSE "failed"
    /\ op' = [op EXCEPT !.name = name,
                        !.client_built = @ \/ built,
                        !.requests = @ + sent,
                        !.error = IF error = "ok" THEN "none" ELSE error]
    /\ UNCHANGED <<venue, pending, cycles, params_file, stop_event,
                   callback, backtest>>

\* run_trader: opt_params = _load_optimized_params()
TradeLoadParams ==
    /\ op.mode = "trade" /\ pc = "start"
    /\ StartStep("load_params", "params",
                 _load_optimized_params(params_file), FALSE, 0)
    /\ UNCHANGED <<klines, state, current_side, ws>>

\* run_trader: strategy = _load_strategy_from_params(opt_params)
TradeLoadStrategy ==
    /\ pc = "params"
    /\ StartStep("load_strategy", "strategy",
                 _load_strategy_from_params(params_file), FALSE, 0)
    /\ UNCHANGED <<klines, state, current_side, ws>>

\* run_trader: trailing_stop = TrailingStop(...)
TradeBuildTrailingStop ==
    /\ pc = "strategy"
    /\ StartStep("trailing_stop", "trailing_stop",
                 LoadedTrailingStop(params_file), FALSE, 0)
    /\ UNCHANGED <<klines, state, current_side, ws>>

\* run_trader: client = BybitClient(); client.set_leverage(...), which
\* returns False on any error.
TradeBuildClient ==
    /\ pc = "trailing_stop"
    /\ StartStep("client", "client", "ok", TRUE, 1)
    /\ UNCHANGED <<klines, state, current_side, ws>>

\* run_trader: _init_historical_buffer and client.get_position, either of
\* which raises what the remote call raised.  The buffer takes the last
\* get_max_klines candles of the answer, which may be empty.
TradeFetch ==
    /\ pc = "client"
    /\ \E e \in {"ok", "RemoteError"}, sent \in {1, 2} :
           /\ (e = "ok" => sent = 2)
           /\ StartStep("fetch", "fetched", e, TRUE, sent)
           /\ klines' \in IF e = "ok"
                           THEN {<<>>, [i \in 1..get_max_klines |-> Close100(i)]}
                           ELSE {klines}
    /\ UNCHANGED <<state, current_side, ws>>

\* run_trader: "if existing_position and existing_position.size > 0:".  The
\* block activates the trailing stop with the position's entry price and
\* side, sets _current_side, and then reads existing_position.trailing_stop,
\* an attribute that Position does not have: the read raises AttributeError
\* out of run_trader.
TradeAdopt ==
    /\ pc = "fetched" /\ venue.size > 0
    /\ LET pos_side == IF venue.side = "Long" THEN "LONG" ELSE "SHORT"
       IN  /\ state' = activate(Px(venue.entry_price), pos_side, klines)
           /\ current_side' = venue.side
    /\ StartStep("adopt", "failed", "AttributeError", FALSE, 0)
    /\ UNCHANGED <<klines, ws>>

\* run_trader: client.setup_websocket, signal.signal, and the main loop.
TradeSubscribe ==
    /\ pc = "fetched" /\ venue.size = 0
    /\ StartStep("subscribe", "loop", "ok", FALSE, 0)
    /\ ws' = "connected"
    /\ UNCHANGED <<klines, state, current_side>>

\* run_optimization: DataCollector() builds a BybitClient and
\* collect_historical_data requests the candles; an error is re-raised,
\* and an empty answer ends the run.
OptimizeCollect ==
    /\ op.mode = "optimize" /\ pc = "start"
    /\ \E e \in {"ok", "RemoteError"}, to \in {"collected", "done"} :
           StartStep("collect", to, e, TRUE, 1)
    /\ UNCHANGED <<klines, state, current_side, ws>>

\* run_optimization: strategy_cls = _load_strategy_class(strategy_name or
\* "ifr"), then the search.
OptimizeLoadStrategy ==
    /\ pc = "collected"
    /\ StartStep("load_strategy", "search",
                 _load_strategy_class(op.strategy), FALSE, 0)
    /\ UNCHANGED <<klines, state, current_side, ws>>

NextStart ==
    \/ TradeLoadParams \/ TradeLoadStrategy \/ TradeBuildTrailingStop
    \/ TradeBuildClient \/ TradeFetch \/ TradeAdopt \/ TradeSubscribe
    \/ OptimizeCollect \/ OptimizeLoadStrategy

SpecStart == InitStart /\ [][NextStart]_vars

\* The run was started on a configuration error: in trade mode a parameter
\* file that is not a JSON object, names a strategy outside the registry,
\* or holds a value of the wrong type; in optimize mode a --strategy name
\* outside the registry.
ConfigurationError ==
    IF op.mode = "trade"
    THEN /\ params_file # NoFile
         /\ \/ ~params_file.json
            \/ params_file.strategy_name = "MACDStrategy"
            \/ params_file.strategy \in {"not_dict", "bad_value"}
            \/ params_file.trailing \in {"not_dict", "bad_period",
                                         "bad_multiplier"}
    ELSE op.strategy = "macd"

\* C28: configuration errors precede any venue contact.  A run started on a
\* configuration error never constructs the venue client, issues no remote
\* request, and reaches neither the trading loop nor the search.
C28_ConfigBeforeVenue ==
    ConfigurationError =>
        /\ ~op.client_built
        /\ op.requests = 0
        /\ pc \notin {"loop", "search"}

\* C37: startup adoption.  The step run_trader takes after it fetched an
\* open position activates the controller with the position's entry price
\* and side, sets the local side to that side, and leaves run_trader on its
\* way to the subscription and the trading loop.
C37_StartupAdoption ==
    [][(pc = "fetched" /\ venue.size > 0) =>
           /\ state'.is_active
           /\ state'.entry_price = Px(venue.entry_price)
           /\ state'.position_side =
                  (IF venue.side = "Long" THEN "LONG" ELSE "SHORT")
           /\ current_side' = venue.side
           /\ pc' # "failed"]_vars

\* C35: controller side agrees with the venue.  After a decision cycle,
\* once the venue has executed every order the cycle sent, an ACTIVE
\* controller and an open venue position are on the same side.
C35_SideAgreement ==
    (op.name = "cycle" /\ pending = <<>> /\ state.is_active /\ venue.size > 0)
    => state.position_side = (IF venue.side = "Long" THEN "LONG" ELSE "SHORT")

\* C36: the protective level survives a failed close.  A cycle that finds
\* the venue position open with the controller ACTIVE on its side, and that
\* gets no order accepted (so the position stays as it was), leaves the
\* controller ACTIVE with a stop that is not lower for a Long and not higher
\* for a Short, also when the cycle saw a breach and its close failed.
C36_StopSurvivesFailedClose ==
    [][(/\ FetchedCycle
        /\ venue.size > 0
        /\ state.is_active
        /\ state.position_side =
               (IF venue.side = "Long" THEN "LONG" ELSE "SHORT")
        /\ \A i \in 1..Len(op'.orders) : ~op'.orders[i].accepted)
       => /\ state'.is_active
          /\ IF venue.side = "Long"
             THEN state'.current_stop >= state.current_stop
             ELSE state'.current_stop <= state.current_stop]_vars

\* C38: a decision cycle sends at most one order to the venue.
C38_OneOrderPerCycle ==
    [][cycles' = cycles + 1 => Len(op'.orders) <= 1]_vars

\* C38 witness: a cycle that saw a breach sent its one order, the close.
C38_Witness ==
    /\ op.name = "cycle" /\ op.path = "breach"
    /\ Len(op.orders) = 1 /\ op.orders[1].reduce_only

-----------------------------------------------------------------------------
(* _backtest: the bar-by-bar simulation run by the objective.  Prices are  *)
(* in the trailing stop's units (Px).  equity is the exact fraction        *)
(* num / den.  The candle list is any list: each bar draws the next        *)
(* candle, and the loop may end after any bar.                             *)

\* The simulation handles at most MaxBars candles.
MaxBars == 3

\* The candle after the strategy's last one, with any of the three shapes.
NextKlines ==
    LET t == klines[Len(klines)].open_time + 1
    IN  {Close94(t), Close100(t), Close106(t)}

\* _backtest: "if stop_price:" and the comparison under it.
HitStop(position_side, stop_price, price) ==
    /\ stop_price # <<>>
    /\ stop_price[1] # 0
    /\ \/ position_side = "LONG" /\ price <= stop_price[1]
       \/ position_side = "SHORT" /\ price >= stop_price[1]

\* _backtest: "Verificar Sinal de Saida da Estrategia".
SignalClose(position_side, signal) ==
    \/ position_side = "LONG" /\ signal \in {"CLOSE_LONG", "SHORT"}
    \/ position_side = "SHORT" /\ signal \in {"CLOSE_SHORT", "LONG"}

\* Mutation of ExitPrice: the exit is always at the candle's close.
ExitPrice_AlwaysClose(hit_stop, stop_price, price) == price

\* _backtest: exit_p = stop_price if hit_stop else price
ExitPrice(hit_stop, stop_price, price) ==
    IF hit_stop THEN stop_price[1] ELSE price

\* _backtest: equity * (1.0 + ret), with ret = (exit_p - entry_price) /
\* entry_price for a LONG and (entry_price - exit_p) / entry_price for a
\* SHORT.
EquityAfter(equity, position_side, entry_price, exit_p) ==
    [num |-> equity.num * (IF position_side = "LONG"
                           THEN entry_price + (exit_p - entry_price)
                           ELSE entry_price + (entry_price - exit_p)),
     den |-> equity.den * entry_price]

\* One pass of the loop body for a candle closing at `price` (in Px units)
\* with the strategy's buffer ks and signal: the locals b and the
\* controller st afterwards, and what the pass did.
BacktestBar(b, st, ks, price, signal) ==
    LET positioned == b.position_side # "None"
        stop_price == IF positioned THEN UpdateReturn(st, price, ks) ELSE <<>>
        st1 == IF positioned THEN UpdateState(st, price, ks) ELSE st
        hit_stop == positioned /\ HitStop(b.position_side, stop_price, price)
        exited == positioned
                  /\ (hit_stop \/ SignalClose(b.position_side, signal))
        exit_p == ExitPrice(hit_stop, stop_price, price)
        b1 == IF exited
              THEN [b EXCEPT !.equity = EquityAfter(b.equity, b.position_side,
                                                    b.entry_price, exit_p),
                             !.position_side = "None"]
              ELSE b
        st2 == IF exited THEN deactivate ELSE st1
        entered == b1.position_side = "None" /\ signal \in {"LONG", "SHORT"}
        b2 == IF entered
              THEN [b1 EXCEPT !.position_side = signal,
                              !.entry_price = price,
                              !.trade_count = @ + 1]
              ELSE b1
        st3 == IF entered THEN activate(price, signal, ks) ELSE st2
    IN  [locals |-> b2, state |-> st3, stop_price |-> stop_price,
         exited |-> exited, exit_p |-> IF exited THEN exit_p ELSE 0,
         after_exit |-> [position_side |-> b1.position_side,
                         is_active |-> st2.is_active],
         entered |-> entered]

\* _backtest before its loop: the strategy holds the first get_max_klines
\* candles, the trailing stop is new, no position, equity 1.0.
\* op, for this specification, is the record of the last bar:
\*   signal, price  the strategy's signal and the candle's close
\*   prev           the locals before the bar
\*   stop_price     what ts.update returned (<<>> when not called or None)
\*   exited, exit_p the bar closed the position, and at which price
\*   after_exit     position_side and the controller's activity right
\*                  after the exit block
\*   entered        the bar opened a position
\*   closed         exits so far: the trades whose return is in equity
InitBT ==
    /\ klines = [i \in 1..get_max_klines |-> Close100(i)]
    /\ state = NoState
    /\ current_side = "None"
    /\ venue = NoPosition
    /\ pending = <<>>
    /\ cycles = 0
    /\ params_file = NoFile
    /\ stop_event = FALSE
    /\ ws = "none"
    /\ pc = "idle"
    /\ callback = <<>>
    /\ backtest = [position_side |-> "None", entry_price |-> 0,
                   equity |-> [num |-> 1, den |-> 1], trade_count |-> 0,
                   returned |-> FALSE]
    /\ op = [name |-> "init", closed |-> 0]

\* One iteration of "for i in range(start_idx, len(klines))".
BacktestStep ==
    \E k \in NextKlines, decided \in Signals :
        LET ks == add_kline(klines, k)
            signal == calculate_signal(ks, decided)
            bar == BacktestBar(backtest, state, ks, Px(k.close), signal)
        IN  /\ backtest # NoBacktest
            /\ ~backtest.returned
            /\ cycles < MaxBars
            /\ klines' = ks
            /\ state' = bar.state
            /\ backtest' = bar.locals
            /\ cycles' = cycles + 1
            /\ op' = [name |-> "bar", signal |-> signal,
                      price |-> Px(k.close), prev |-> backtest,
                      stop_price |-> bar.stop_price,
                      exited |-> bar.exited, exit_p |-> bar.exit_p,
                      after_exit |-> bar.after_exit,
                      entered |-> bar.entered,
                      closed |-> op.closed + (IF bar.exited THEN 1 ELSE 0)]
            /\ UNCHANGED <<current_side, venue, pending, params_file,
                           stop_event, ws, pc, callback>>

\* The loop ends: "return equity - 1.0, trade_count".
BacktestReturn ==
    /\ backtest # NoBacktest
    /\ ~backtest.returned
    /\ backtest' = [backtest EXCEPT !.returned = TRUE]
    /\ op' = [name |-> "return", closed |-> op.closed,
              total_return |-> [num |-> backtest.equity.num
                                        - backtest.equity.den,
                                den |-> backtest.equity.den],
              trade_count |-> backtest.trade_count]
    /\ UNCHANGED <<klines, state, current_side, venue, pending, cycles,
                   params_file, stop_event, ws, pc, callback>>

NextBT == BacktestStep \/ BacktestReturn

SpecBT == InitBT /\ [][NextBT]_vars

\* C33: backtest step.  On a bar with a position the trailing stop is
\* updated first; the position is closed exactly when the update reported a
\* breach or the signal is the opposing or the closing one; the exit price
\* is the stop price on a breach and the candle's close otherwise; equity is
\* multiplied by 1 + signed return, and right after the exit the side is
\* None and the controller inactive.  An entry sets the side and the entry
\* price, adds exactly one to trade_count and activates the controller.
\* A bar that does not exit leaves equity alone, one that does not enter
\* leaves trade_count alone.
C33_BacktestStep ==
    op.name = "bar" =>
        LET prev == op.prev
            positioned == prev.position_side # "None"
            breached == op.stop_price # <<>>
            closing ==
                \/ prev.position_side = "LONG"
                   /\ op.signal \in {"SHORT", "CLOSE_LONG"}
                \/ prev.position_side = "SHORT"
                   /\ op.signal \in {"LONG", "CLOSE_SHORT"}
            gain == IF prev.position_side = "LONG"
                    THEN op.exit_p - prev.entry_price
                    ELSE prev.entry_price - op.exit_p
        IN  /\ (~positioned => op.stop_price = <<>>)
            /\ (op.exited <=> (positioned /\ (breached \/ closing)))
            /\ (op.exited =>
                  /\ op.exit_p = (IF breached THEN op.stop_price[1]
                                  ELSE op.price)
                  /\ backtest.equity =
                        [num |-> prev.equity.num * (prev.entry_price + gain),
                         den |-> prev.equity.den * prev.entry_price]
                  /\ op.after_exit = [position_side |-> "None",
                                      is_active |-> FALSE])
            /\ (~op.exited => backtest.equity = prev.equity)
            /\ (op.entered =>
                  /\ backtest.position_side = op.signal
                  /\ backtest.entry_price = op.price
                  /\ backtest.trade_count = prev.trade_count + 1
                  /\ state.is_active
                  /\ state.position_side = op.signal
                  /\ state.entry_price = op.price)
            /\ (~op.entered => backtest.trade_count = prev.trade_count)

\* C33 witness: a bar closed a position on a breach, at the stop price and
\* not at the candle's close, and opened nothing.
C33_Witness ==
    /\ op.name = "bar"
    /\ op.exited /\ op.stop_price # <<>>
    /\ op.exit_p = op.stop_price[1] /\ op.exit_p # op.price
    /\ ~op.entered
    /\ backtest.position_side = "None" /\ ~state.is_active

\* C34: a bar that closed a position opens no position.
C34_NoEntryOnExitBar ==
    op.name = "bar" => ~(op.exited /\ op.entered)

\* C40: when _backtest returns, as many trades have had their return
\* multiplied into equity as trade_count counts.
C40_EveryTradeInEquity ==
    op.name = "return" => op.closed = op.trade_count

====
